---- MODULE Spec2Model ----
(***************************************************************************)
(* A model of ffmeta: the timestamp codec (utils.py), the FFMETADATA codec  *)
(* (ffmetadata.py), the probe-result projection and write_metadata          *)
(* (services.py), the tag prompt with its validators (cli/prompt.py,        *)
(* validators.py), the tag catalog and the MediaMetadata methods            *)
(* (types.py, media.py, cli/helpers.py), the JSON codec (serialize.py) and  *)
(* the "edit chapters" command (cli/edit.py).                               *)
(*                                                                          *)
(* Text is modelled at character level: a Python str is a sequence of       *)
(* one-character strings, so that formatting and parsing are computed and   *)
(* not assumed.  An Optional[T] is a sequence of length 0 (None) or 1.      *)
(***************************************************************************)
EXTENDS Integers, Sequences, FiniteSets, TLC

VARIABLES
    \* ---- timestamp codec (utils.py) ----
    milliseconds,   \* the int handed to milliseconds_to_time
    time_value,     \* Optional[time]: result of milliseconds_to_time
    timestamp,      \* Optional[str]: result of format_timestamp
    ms_result,      \* Optional[int]: result of timestamp_to_milliseconds
    tpc,            \* position in time_to_milliseconds(milliseconds_to_time(n))
    \* ---- FFMETADATA codec (ffmetadata.py) ----
    metadata,       \* Optional[MediaMetadata]: the argument of dumps_ffmetadata
    content,        \* str: the argument of loads_ffmetadata
    lines,          \* content.splitlines()
    line_index,     \* the index enumerate(lines[1:]) has reached
    tags,           \* List[Tuple[str, str]]
    chapters,       \* List[MediaChapter]
    is_parsing_chapter,
    start_time,     \* Optional[time]
    end_time,       \* Optional[time]
    title,          \* Optional[str]
    description,    \* Optional[str]
    lpc,            \* position in dumps_ffmetadata / loads_ffmetadata
    error,          \* the type of the exception raised, "" when none
    loaded,         \* Optional[MediaMetadata]: what loads_ffmetadata returned
    \* ---- probe_metadata (services.py) ----
    is_file,        \* filepath.is_file()
    probe,          \* what probe_media(filepath) returned
    sorted_chapters,\* sorted(probe["chapters"], key=start)
    chapter_index,  \* the index enumerate(sorted(...)) has reached
    probe_tags,     \* List[Tuple[str, str]]
    probe_chapters, \* List[MediaChapter]
    warnings,       \* the chapter indexes warn() was called with
    ppc,            \* position in probe_metadata
    probe_error,    \* the type of the exception raised, "" when none
    probed,         \* Optional[MediaMetadata]: what probe_metadata returned
    \* ---- prompt_tag (cli/prompt.py) ----
    tag_definition, \* the TagDefinition prompted for
    default,        \* Optional[str]: the default argument
    tag_default,    \* Optional[str]
    tag_value,      \* str
    is_valid,
    validator_index,\* the position of the for loop over the validators
    console,        \* what console.print was called with, in order
    asks,           \* the number of answers the user has given
    prpc,           \* position in prompt_tag
    prompted,       \* Optional[str]: what prompt_tag returned
    \* ---- MediaMetadata methods and the tag catalog (types.py, cli/helpers.py) ----
    media_metadata, \* the MediaMetadata the methods are called on
    find_definition,\* the TagDefinition handed to find_tags
    mimetype,       \* Optional[str]: what get_mimetype(media_filepath) returns
    found_tags,     \* Optional[List[str]]: list(find_tags(definition))
    find_calls,     \* the number of find_tags calls made
    defined_tags,   \* Optional[List]: list(iter_defined_tags())
    desired_tags,   \* Optional[List[TagDefinition]]: list(iter_desired_tags(path))
    is_edited,      \* edit_metadata_tags has replaced the tags
    ffmetadata_text,\* Optional[str]: what dump_ffmetadata wrote
    tgpc,           \* position: "idle", "ready" or "done"
    \* ---- parse_timestamp and format_timestamp (utils.py) ----
    time_arg,       \* Optional[time]: the argument of format_timestamp
    parse_text,     \* str: the argument of parse_timestamp
    parsed_time,    \* Optional[time]: what parse_timestamp returned
    pspc,           \* position: "idle", "format", "parse", "parsed", "raised",
                    \* "prompt", "prompted" or "refused"
    \* ---- dumps_metadata / loads_metadata (serialize.py) and the apply command ----
    json_metadata,  \* Optional[MediaMetadata]: the argument of dumps_metadata
    json_content,   \* Optional: the JSON document dumps_metadata returned
    json_loaded,    \* Optional: what loads_metadata returned
    json_error,     \* the type of the exception raised, "" when none
    jpc,            \* position: "idle", "dump", "load", "apply", "applied" or "raised"
    \* ---- write_metadata (services.py) ----
    fs,             \* what each path is: "absent", "file" or "dir"
    write_arg,      \* the MediaMetadata handed to write_metadata
    media_filepath, \* Path
    output_filepath,\* Path
    overwrite,      \* bool
    temp_created,   \* NamedTemporaryFile has created the metadata document
    temp_exists,    \* metadata_filepath.is_file()
    temp_text,      \* str: what dump_ffmetadata wrote to the document
    tool_invoked,   \* command.run has started ffmpeg
    write_error,    \* the type of the exception raised, "" when none
    wpc,            \* position: "idle", "call", "temp", "run", "returned" or "raised"
    \* ---- edit chapters (cli/edit.py, cli/helpers.py) ----
    edit_probed,    \* the chapters probe_metadata returned, before the edit
    chapter_option, \* Optional[int]: the --chapter option
    edit_metadata,  \* the MediaMetadata the command goes on with
    entered_chapter,\* Optional[MediaChapter]: prompt_media_chapter's for --chapter
    applied,        \* Optional[MediaMetadata]: what apply_metadata was called with
    edit_exit,      \* the code of typer.Exit, -1 when the command has not exited
    epc             \* position: "idle", "call", "single", "all", "apply", "write"
                    \* or "exited"

time_vars == <<milliseconds, time_value, timestamp, ms_result, tpc>>
chapter_vars == <<start_time, end_time, title, description>>
loads_vars == <<lines, line_index, tags, chapters, is_parsing_chapter,
                chapter_vars, lpc, error, loaded>>
codec_vars == <<metadata, content, loads_vars>>
probe_vars == <<is_file, probe, sorted_chapters, chapter_index, probe_tags,
                probe_chapters, warnings, ppc, probe_error, probed>>
prompt_vars == <<tag_definition, default, tag_default, tag_value, is_valid,
                 validator_index, console, asks, prpc, prompted>>
tags_vars == <<media_metadata, find_definition, mimetype, found_tags, find_calls,
               defined_tags, desired_tags, is_edited, ffmetadata_text, tgpc>>
parse_vars == <<time_arg, parse_text, parsed_time, pspc>>
json_vars == <<json_metadata, json_content, json_loaded, json_error, jpc>>
write_vars == <<fs, write_arg, media_filepath, output_filepath, overwrite,
    temp_created, temp_exists, temp_text, tool_invoked, write_error, wpc>>
edit_vars == <<edit_probed, chapter_option, edit_metadata, entered_chapter,
               applied, edit_exit, epc>>

\* what the actions of one component leave alone
non_time_vars ==
    <<codec_vars, probe_vars, prompt_vars, tags_vars, parse_vars,
      json_vars, write_vars, edit_vars>>
non_codec_vars ==
    <<time_vars, probe_vars, prompt_vars, tags_vars, parse_vars,
      json_vars, write_vars, edit_vars>>
non_probe_vars ==
    <<time_vars, codec_vars, prompt_vars, tags_vars, parse_vars,
      json_vars, write_vars, edit_vars>>
non_prompt_vars ==
    <<time_vars, codec_vars, probe_vars, tags_vars, parse_vars,
      json_vars, write_vars, edit_vars>>
non_tags_vars ==
    <<time_vars, codec_vars, probe_vars, prompt_vars, parse_vars,
      json_vars, write_vars, edit_vars>>
non_parse_vars ==
    <<time_vars, codec_vars, probe_vars, prompt_vars, tags_vars,
      json_vars, write_vars, edit_vars>>
non_json_vars ==
    <<time_vars, codec_vars, probe_vars, prompt_vars, tags_vars,
      parse_vars, write_vars, edit_vars>>
non_write_vars ==
    <<time_vars, codec_vars, probe_vars, prompt_vars, tags_vars,
      parse_vars, json_vars, edit_vars>>
non_edit_vars ==
    <<time_vars, codec_vars, probe_vars, prompt_vars, tags_vars,
      parse_vars, json_vars, write_vars>>

vars ==
    <<time_vars, codec_vars, probe_vars, prompt_vars, tags_vars,
      parse_vars, json_vars, write_vars, edit_vars>>

-----------------------------------------------------------------------------
(* Optional values and characters *)

None == <<>>
Some(x) == <<x>>
IsNone(o) == o = <<>>
Get(o) == o[1]

Digits == <<"0", "1", "2", "3", "4", "5", "6", "7", "8", "9">>
DigitChars == {Digits[i] : i \in 1..10}
DigitVal(c) == (CHOOSE i \in 1..10 : Digits[i] = c) - 1

\* str(n) for n >= 0
RECURSIVE IntToStr(_)
IntToStr(n) ==
    IF n < 10 THEN <<Digits[n + 1]>>
    ELSE IntToStr(n \div 10) \o <<Digits[(n % 10) + 1]>>

\* int(s) for a non-empty string of decimal digits
RECURSIVE DigitsToInt(_)
DigitsToInt(s) ==
    IF Len(s) = 0 THEN 0
    ELSE DigitsToInt(SubSeq(s, 1, Len(s) - 1)) * 10 + DigitVal(s[Len(s)])

\* "%0<w>d" % n
RECURSIVE ZeroPad(_, _)
ZeroPad(s, w) == IF Len(s) >= w THEN s ELSE ZeroPad(<<"0">> \o s, w)

\* the number of consecutive decimal digits of s starting at position i
RECURSIVE DigitRun(_, _)
DigitRun(s, i) ==
    IF i <= Len(s) /\ s[i] \in DigitChars THEN 1 + DigitRun(s, i + 1) ELSE 0

Min(a, b) == IF a < b THEN a ELSE b

-----------------------------------------------------------------------------
(* utils.py: the timestamp codec *)

\* datetime.time, as far as the program reads it
Time(h, m, s, us) == [hour |-> h, minute |-> m, second |-> s, microsecond |-> us]

\* mutant: the hours keep counting beyond one day
milliseconds_to_time_unwrapped(ms) ==
    LET secs == ms \div 1000
    IN  Time(secs \div 3600, (secs % 3600) \div 60, secs % 60, (ms % 1000) * 1000)

\* datetime.utcfromtimestamp(ms // 1000).replace(microsecond=ms % 1000 * 1000).time():
\* the date part is dropped, so the seconds count is taken modulo one day.
milliseconds_to_time(ms) ==
    LET secs == ms \div 1000
        day  == secs % 86400
    IN  Time(day \div 3600, (day % 3600) \div 60, day % 60, (ms % 1000) * 1000)

\* timestamp.strftime("%H:%M:%S.%f")[:-3]
format_timestamp(t) ==
    LET full == ZeroPad(IntToStr(t.hour), 2) \o <<":">>
                \o ZeroPad(IntToStr(t.minute), 2) \o <<":">>
                \o ZeroPad(IntToStr(t.second), 2) \o <<".">>
                \o ZeroPad(IntToStr(t.microsecond), 6)
    IN  SubSeq(full, 1, Len(full) - 3)

NoMatch == [matched |-> FALSE, hours |-> None, minutes |-> <<>>,
            seconds |-> <<>>, milliseconds |-> None]

\* (?P<minutes>\d{1,2}):(?P<seconds>\d{1,2})(?:\.(?P<milliseconds>\d{0,3}))?
\* matched at position i of s; hrs is the hours group already matched (or None).
\* \d{1,2} followed by ":" can only match a whole digit run of length 1 or 2;
\* the seconds and the fraction are greedy and nothing after them can fail.
MatchMinutesSeconds(s, i, hrs) ==
    LET mrun == DigitRun(s, i)
        j    == i + mrun + 1
        srun == Min(DigitRun(s, j), 2)
        k    == j + srun
        frun == Min(DigitRun(s, k + 1), 3)
    IN  IF mrun \in {1, 2} /\ i + mrun <= Len(s) /\ s[i + mrun] = ":" /\ srun >= 1
        THEN [matched |-> TRUE,
              hours |-> hrs,
              minutes |-> SubSeq(s, i, i + mrun - 1),
              seconds |-> SubSeq(s, j, k - 1),
              milliseconds |-> IF k <= Len(s) /\ s[k] = "."
                               THEN Some(SubSeq(s, k + 1, k + frun))
                               ELSE None]
        ELSE NoMatch

\* TIMESTAMP_PATTERN.match(s): the optional hours group (?:(?P<hours>\d+):)? is
\* tried first; when the rest fails behind it the regex backtracks to no hours.
TIMESTAMP_PATTERN(s) ==
    LET hrun  == DigitRun(s, 1)
        withH == IF hrun >= 1 /\ hrun + 1 <= Len(s) /\ s[hrun + 1] = ":"
                 THEN MatchMinutesSeconds(s, hrun + 2, Some(SubSeq(s, 1, hrun)))
                 ELSE NoMatch
    IN  IF withH.matched THEN withH ELSE MatchMinutesSeconds(s, 1, None)

\* int(groups.get(name, 0) or 0)
GroupOrZero(g) == IF IsNone(g) \/ Len(Get(g)) = 0 THEN 0 ELSE DigitsToInt(Get(g))

\* timestamp_to_milliseconds: Optional[int], None standing for the ValueError
timestamp_to_milliseconds(s) ==
    LET groups == TIMESTAMP_PATTERN(s)
    IN  IF ~groups.matched THEN None
        ELSE LET hours   == GroupOrZero(groups.hours)
                 minutes == DigitsToInt(groups.minutes)
                 seconds == DigitsToInt(groups.seconds)
                 millis  == GroupOrZero(groups.milliseconds)
             IN  Some((((((hours * 60) + minutes) * 60) + seconds) * 1000) + millis)

\* timestamp_to_time: Optional[time], None standing for the ValueError of a
\* string the pattern does not match and for the one datetime.time raises
\* for an hour above 23 or a minute or second above 59
timestamp_to_time(s) ==
    LET groups == TIMESTAMP_PATTERN(s)
    IN  IF ~groups.matched THEN None
        ELSE LET hours   == GroupOrZero(groups.hours)
                 minutes == DigitsToInt(groups.minutes)
                 seconds == DigitsToInt(groups.seconds)
                 millis  == GroupOrZero(groups.milliseconds)
             IN  IF hours > 23 \/ minutes > 59 \/ seconds > 59 THEN None
                 ELSE Some(Time(hours, minutes, seconds, millis * 1000))

\* time_to_milliseconds(t) == timestamp_to_milliseconds(format_timestamp(t))
time_to_milliseconds(t) == Get(timestamp_to_milliseconds(format_timestamp(t)))

\* one of %H, %M, %S of strptime at position i of s, the separator sep
\* following it: the regex (2[0-3]|[0-1]\d|\d and alike) takes a run of one
\* digit, or of two digits that are at most max; the width taken, 0 for none
FieldWidth(s, i, max, sep) ==
    LET w == DigitRun(s, i)
    IN  IF /\ w \in {1, 2}
           /\ (w = 2 => DigitsToInt(SubSeq(s, i, i + 1)) <= max)
           /\ i + w <= Len(s)
           /\ s[i + w] = sep
        THEN w ELSE 0

\* datetime.strptime(s, "%H:%M:%S.%f").time(): Optional[time], None for
\* the ValueError of a string that does not match, that has data left after
\* the six digits %f takes at most, or whose second is 60 or 61
strptime_HMSf(s) ==
    LET hw == FieldWidth(s, 1, 23, ":")
        mi == 1 + hw + 1
        mw == IF hw = 0 THEN 0 ELSE FieldWidth(s, mi, 59, ":")
        si == mi + mw + 1
        sw == IF mw = 0 THEN 0 ELSE FieldWidth(s, si, 61, ".")
        fi == si + sw + 1
        fw == IF sw = 0 THEN 0 ELSE DigitRun(s, fi)
    IN  IF sw = 0 \/ fw = 0 \/ fw > 6 \/ fi + fw - 1 # Len(s) THEN None
        ELSE IF DigitsToInt(SubSeq(s, si, si + sw - 1)) > 59 THEN None
        ELSE Some(Time(DigitsToInt(SubSeq(s, 1, hw)),
                       DigitsToInt(SubSeq(s, mi, mi + mw - 1)),
                       DigitsToInt(SubSeq(s, si, si + sw - 1)),
                       DigitsToInt(SubSeq(SubSeq(s, fi, Len(s))
                                          \o <<"0", "0", "0", "0", "0">>, 1, 6))))

\* parse_timestamp: strptime(f"{timestamp}000", "%H:%M:%S.%f").time()
parse_timestamp(ts) == strptime_HMSf(ts \o <<"0", "0", "0">>)

ParseIdle ==
    /\ time_arg = None
    /\ parse_text = <<>>
    /\ parsed_time = None
    /\ pspc = "idle"

\* format_timestamp(time_arg), whose text is then parsed
FormatTimeArg ==
    /\ pspc = "format"
    /\ parse_text' = format_timestamp(Get(time_arg))
    /\ pspc' = "parse"
    /\ UNCHANGED <<time_arg, parsed_time>>
    /\ UNCHANGED non_parse_vars

\* parse_timestamp(parse_text)
ParseTimestamp ==
    /\ pspc = "parse"
    /\ parsed_time' = parse_timestamp(parse_text)
    /\ pspc' = IF IsNone(parse_timestamp(parse_text)) THEN "raised" ELSE "parsed"
    /\ UNCHANGED <<time_arg, parse_text>>
    /\ UNCHANGED non_parse_vars

\* cli/prompt.py, prompt_time, lines 183-187, for one answer of the user:
\* the time parse_timestamp gives when timestamp_to_milliseconds and
\* parse_timestamp both take the answer, None when the answer is refused
prompt_time(value) ==
    IF IsNone(timestamp_to_milliseconds(value)) THEN None
    ELSE parse_timestamp(value)

\* prompt_time on the answer parse_text; a refused answer is asked for again
PromptTime ==
    /\ pspc = "prompt"
    /\ parsed_time' = prompt_time(parse_text)
    /\ pspc' = IF IsNone(prompt_time(parse_text)) THEN "refused" ELSE "prompted"
    /\ UNCHANGED <<time_arg, parse_text>>
    /\ UNCHANGED non_parse_vars

ParseNext == FormatTimeArg \/ ParseTimestamp \/ PromptTime

-----------------------------------------------------------------------------
(* Python str operations used by the FFMETADATA codec *)

UpperLetters == <<"A", "B", "C", "D", "E", "F", "G", "H", "I", "J", "K", "L", "M",
                  "N", "O", "P", "Q", "R", "S", "T", "U", "V", "W", "X", "Y", "Z">>
LowerLetters == <<"a", "b", "c", "d", "e", "f", "g", "h", "i", "j", "k", "l", "m",
                  "n", "o", "p", "q", "r", "s", "t", "u", "v", "w", "x", "y", "z">>
Letters == {UpperLetters[i] : i \in 1..26} \cup {LowerLetters[i] : i \in 1..26}

\* the characters \w matches
WordChars == Letters \cup DigitChars \cup {"_"}
\* the characters str.strip() removes
Whitespace == {" ", "\t", "\n", "\r", "\f"}
\* the characters str.splitlines() breaks at ("\r\n" counts once)
LineBreaks == {"\n", "\r", "\f"}

LowerChar(c) ==
    IF \E i \in 1..26 : UpperLetters[i] = c
    THEN LowerLetters[CHOOSE i \in 1..26 : UpperLetters[i] = c]
    ELSE c

\* s.lower()
lower(s) == [i \in 1..Len(s) |-> LowerChar(s[i])]

RECURSIVE lstrip(_)
lstrip(s) == IF Len(s) > 0 /\ s[1] \in Whitespace THEN lstrip(Tail(s)) ELSE s

RECURSIVE rstrip(_)
rstrip(s) ==
    IF Len(s) > 0 /\ s[Len(s)] \in Whitespace
    THEN rstrip(SubSeq(s, 1, Len(s) - 1)) ELSE s

\* s.strip()
strip(s) == rstrip(lstrip(s))

\* s.splitlines() from position i: a break ends the current line (empty or
\* not); text left after the last break is a line.
RECURSIVE SplitFrom(_, _)
SplitFrom(s, i) ==
    IF i > Len(s) THEN <<>>
    ELSE LET breaks == {j \in i..Len(s) : s[j] \in LineBreaks}
         IN  IF breaks = {} THEN <<SubSeq(s, i, Len(s))>>
             ELSE LET j    == CHOOSE b \in breaks : \A c \in breaks : b <= c
                      step == IF s[j] = "\r" /\ j < Len(s) /\ s[j + 1] = "\n"
                              THEN 2 ELSE 1
                  IN  <<SubSeq(s, i, j - 1)>> \o SplitFrom(s, j + step)

splitlines(s) == SplitFrom(s, 1)

\* sep.join(parts)
RECURSIVE join(_, _)
join(sep, parts) ==
    IF Len(parts) = 0 THEN <<>>
    ELSE IF Len(parts) = 1 THEN parts[1]
    ELSE parts[1] \o sep \o join(sep, Tail(parts))

\* int(s): surrounding whitespace and one sign are accepted; None is ValueError
int(s) ==
    LET t        == strip(s)
        signed   == Len(t) > 0 /\ t[1] \in {"+", "-"}
        digits   == IF signed THEN Tail(t) ELSE t
    IN  IF Len(digits) = 0 \/ \E i \in 1..Len(digits) : digits[i] \notin DigitChars
        THEN None
        ELSE IF signed /\ t[1] = "-" THEN Some(0 - DigitsToInt(digits))
        ELSE Some(DigitsToInt(digits))

\* the number of leading \w characters of s from position i
RECURSIVE WordRun(_, _)
WordRun(s, i) ==
    IF i <= Len(s) /\ s[i] \in WordChars THEN 1 + WordRun(s, i + 1) ELSE 0

-----------------------------------------------------------------------------
(* ffmetadata.py: the FFMETADATA codec *)

NL == <<"\n">>
sHeader == <<";", "F", "F", "M", "E", "T", "A", "D", "A", "T", "A">>
sChapter == <<"[", "C", "H", "A", "P", "T", "E", "R", "]">>
sTimebase == <<"T", "I", "M", "E", "B", "A", "S", "E", "=", "1", "/", "1", "0", "0", "0">>
sStart == <<"S", "T", "A", "R", "T">>
sEnd == <<"E", "N", "D">>
sTitle == <<"t", "i", "t", "l", "e">>
sDescription == <<"d", "e", "s", "c", "r", "i", "p", "t", "i", "o", "n">>
EQ == <<"=">>

MediaChapter(t, d, s, e) ==
    [title |-> t, description |-> d, start_time |-> s, end_time |-> e]

MediaMetadata(t, c) == [version |-> <<"1">>, tags |-> t, chapters |-> c]

\* FFMETADATA_CHAPTER_PATTERN.match(line): ^\[chapter\]$ with re.IGNORECASE
\* ($ also matches before one final "\n")
FFMETADATA_CHAPTER_PATTERN(line) ==
    lower(line) \in {lower(sChapter), lower(sChapter) \o NL}

\* FFMETADATA_KV_PATTERN.match(line): ^(?P<key>\w+)=(?P<value>.*)$
\* \w+ is greedy and "=" is no word character, so the key is the whole leading
\* run of word characters; "." stops at "\n", which may only end the line.
FFMETADATA_KV_PATTERN(line) ==
    LET n    == WordRun(line, 1)
        rest == SubSeq(line, n + 2, Len(line))
        val  == IF Len(rest) > 0 /\ rest[Len(rest)] = "\n"
                THEN SubSeq(rest, 1, Len(rest) - 1) ELSE rest
    IN  IF n >= 1 /\ n + 1 <= Len(line) /\ line[n + 1] = "="
           /\ \A i \in 1..Len(val) : val[i] # "\n"
        THEN [matched |-> TRUE, key |-> SubSeq(line, 1, n), value |-> val]
        ELSE [matched |-> FALSE, key |-> <<>>, value |-> <<>>]

\* bool(x) of an Optional[str]: None and "" are false
TruthyStr(o) == ~IsNone(o) /\ Len(Get(o)) > 0
\* bool(x) of an Optional[time]: every datetime.time is true
TruthyTime(o) == ~IsNone(o)

\* _build_media_chapter: Optional[MediaChapter]
build_media_chapter(ti, de, st, en) ==
    IF ~TruthyStr(ti) \/ ~TruthyTime(st) \/ ~TruthyTime(en) THEN None
    ELSE Some(MediaChapter(Get(ti), de, Get(st), Get(en)))

\* mutant: the header compared as written, without lower() and strip()
HeaderMissing_exact(first) == first # sHeader

\* lines[0].lower().strip() != ";ffmetadata"
HeaderMissing(first) == strip(lower(first)) # lower(sHeader)

\* mutant: only the title is required at a boundary
ChapterIncomplete_titleOnly(ti, st, en) == ~TruthyStr(ti)

\* not all([title, start_time, end_time])
ChapterIncomplete(ti, st, en) ==
    ~(TruthyStr(ti) /\ TruthyTime(st) /\ TruthyTime(en))

\* the list handed to filter(None, ...) in dumps_ffmetadata_chapter
ChapterLines(chapter) ==
    <<sChapter,
      sTimebase,
      sStart \o EQ \o IntToStr(time_to_milliseconds(chapter.start_time)),
      sEnd \o EQ \o IntToStr(time_to_milliseconds(chapter.end_time)),
      sTitle \o EQ \o chapter.title,
      IF TruthyStr(chapter.description)
      THEN sDescription \o EQ \o Get(chapter.description) ELSE <<>>>>

NonEmpty(s) == Len(s) > 0

dumps_ffmetadata_chapter(chapter) ==
    join(NL, SelectSeq(ChapterLines(chapter), NonEmpty))

TagLine(tag) == tag[1] \o EQ \o tag[2]

dumps_ffmetadata(m) ==
    join(NL, <<sHeader,
               join(NL, [i \in 1..Len(m.tags) |-> TagLine(m.tags[i])]),
               <<>>,
               join(NL \o NL, [i \in 1..Len(m.chapters) |->
                                  dumps_ffmetadata_chapter(m.chapters[i])])>>)

-----------------------------------------------------------------------------
(* loads_ffmetadata, one action per path through the body of its loop *)

CodecIdle ==
    /\ metadata = None
    /\ content = <<>>
    /\ lines = <<>>
    /\ line_index = 0
    /\ tags = <<>>
    /\ chapters = <<>>
    /\ is_parsing_chapter = FALSE
    /\ start_time = None
    /\ end_time = None
    /\ title = None
    /\ description = None
    /\ lpc = "idle"
    /\ error = ""
    /\ loaded = None

\* the line the loop is at: enumerate(lines[1:]) gives lines[line_index + 1],
\* which is position line_index + 2 counting from 1
HasLine == lpc = "loop" /\ line_index + 2 <= Len(lines)
CurLine == lines[line_index + 2]

Raise(kind) ==
    /\ lpc' = "raised"
    /\ error' = kind

\* lines 52-66: split, check the header, set up the accumulators
LoadsCall ==
    /\ lpc = "call"
    /\ lines' = splitlines(content)
    /\ IF Len(lines') = 0 THEN Raise("IndexError")
       ELSE IF HeaderMissing(lines'[1]) THEN Raise("ValueError")
       ELSE lpc' = "loop" /\ error' = ""
    /\ line_index' = 0
    /\ tags' = <<>>
    /\ chapters' = <<>>
    /\ is_parsing_chapter' = FALSE
    /\ start_time' = None
    /\ end_time' = None
    /\ title' = None
    /\ description' = None
    /\ UNCHANGED non_codec_vars
    /\ UNCHANGED <<metadata, content, loaded>>

\* lines 70-71: skip empty lines
LoadsSkipEmpty ==
    /\ HasLine
    /\ Len(strip(CurLine)) = 0
    /\ line_index' = line_index + 1
    /\ UNCHANGED non_codec_vars
    /\ UNCHANGED <<metadata, content, lines, tags, chapters, is_parsing_chapter,
                   chapter_vars, lpc, error, loaded>>

\* mutant: the description of a chapter is kept across the boundary
LoadsChapterMarker_keep_description ==
    /\ HasLine
    /\ Len(strip(CurLine)) # 0
    /\ FFMETADATA_CHAPTER_PATTERN(CurLine)
    /\ IF is_parsing_chapter /\ ChapterIncomplete(title, start_time, end_time)
       THEN /\ Raise("ValueError")
            /\ UNCHANGED <<line_index, chapters, is_parsing_chapter, chapter_vars>>
       ELSE /\ IF is_parsing_chapter
               THEN /\ LET media_chapter ==
                             build_media_chapter(title, description,
                                                 start_time, end_time)
                       IN  chapters' = IF IsNone(media_chapter) THEN chapters
                                       ELSE Append(chapters, Get(media_chapter))
                    /\ start_time' = None
                    /\ end_time' = None
                    /\ title' = None
                    /\ UNCHANGED description
               ELSE UNCHANGED <<chapters, chapter_vars>>
            /\ is_parsing_chapter' = TRUE
            /\ line_index' = line_index + 1
            /\ UNCHANGED <<lpc, error>>
    /\ UNCHANGED non_codec_vars
    /\ UNCHANGED <<metadata, content, lines, tags, loaded>>

\* lines 73-96: a [chapter] marker
LoadsChapterMarker ==
    /\ HasLine
    /\ Len(strip(CurLine)) # 0
    /\ FFMETADATA_CHAPTER_PATTERN(CurLine)
    /\ IF is_parsing_chapter /\ ChapterIncomplete(title, start_time, end_time)
       THEN /\ Raise("ValueError")
            /\ UNCHANGED <<line_index, chapters, is_parsing_chapter, chapter_vars>>
       ELSE /\ IF is_parsing_chapter
               THEN /\ LET media_chapter ==
                             build_media_chapter(title, description,
                                                 start_time, end_time)
                       IN  chapters' = IF IsNone(media_chapter) THEN chapters
                                       ELSE Append(chapters, Get(media_chapter))
                    /\ start_time' = None
                    /\ end_time' = None
                    /\ title' = None
                    /\ description' = None
               ELSE UNCHANGED <<chapters, chapter_vars>>
            /\ is_parsing_chapter' = TRUE
            /\ line_index' = line_index + 1
            /\ UNCHANGED <<lpc, error>>
    /\ UNCHANGED non_codec_vars
    /\ UNCHANGED <<metadata, content, lines, tags, loaded>>

\* mutant: a line that is neither a marker nor key=value is an error
LoadsSkipNoMatch_raise ==
    /\ HasLine
    /\ Len(strip(CurLine)) # 0
    /\ ~FFMETADATA_CHAPTER_PATTERN(CurLine)
    /\ ~FFMETADATA_KV_PATTERN(CurLine).matched
    /\ Raise("ValueError")
    /\ UNCHANGED non_codec_vars
    /\ UNCHANGED <<metadata, content, lines, line_index, tags, chapters,
                   is_parsing_chapter, chapter_vars, loaded>>

\* lines 98-100: neither a marker nor key=value
LoadsSkipNoMatch ==
    /\ HasLine
    /\ Len(strip(CurLine)) # 0
    /\ ~FFMETADATA_CHAPTER_PATTERN(CurLine)
    /\ ~FFMETADATA_KV_PATTERN(CurLine).matched
    /\ line_index' = line_index + 1
    /\ UNCHANGED non_codec_vars
    /\ UNCHANGED <<metadata, content, lines, tags, chapters, is_parsing_chapter,
                   chapter_vars, lpc, error, loaded>>

\* mutant: the tags kept as a dict, a repeated key replacing the earlier value
LoadsTag_dict ==
    /\ HasLine
    /\ Len(strip(CurLine)) # 0
    /\ ~FFMETADATA_CHAPTER_PATTERN(CurLine)
    /\ FFMETADATA_KV_PATTERN(CurLine).matched
    /\ ~is_parsing_chapter
    /\ LET kv_groups == FFMETADATA_KV_PATTERN(CurLine)
           key       == strip(kv_groups.key)
       IN  tags' = IF \E i \in 1..Len(tags) : tags[i][1] = key
                   THEN [i \in 1..Len(tags) |->
                           IF tags[i][1] = key THEN <<key, kv_groups.value>>
                           ELSE tags[i]]
                   ELSE Append(tags, <<key, kv_groups.value>>)
    /\ line_index' = line_index + 1
    /\ UNCHANGED non_codec_vars
    /\ UNCHANGED <<metadata, content, lines, chapters, is_parsing_chapter,
                   chapter_vars, lpc, error, loaded>>

\* lines 102-108: key=value before any chapter
LoadsTag ==
    /\ HasLine
    /\ Len(strip(CurLine)) # 0
    /\ ~FFMETADATA_CHAPTER_PATTERN(CurLine)
    /\ FFMETADATA_KV_PATTERN(CurLine).matched
    /\ ~is_parsing_chapter
    /\ LET kv_groups == FFMETADATA_KV_PATTERN(CurLine)
       IN  tags' = Append(tags, <<strip(kv_groups.key), kv_groups.value>>)
    /\ line_index' = line_index + 1
    /\ UNCHANGED non_codec_vars
    /\ UNCHANGED <<metadata, content, lines, chapters, is_parsing_chapter,
                   chapter_vars, lpc, error, loaded>>

\* lines 102-118: key=value inside a chapter
LoadsChapterKey ==
    /\ HasLine
    /\ Len(strip(CurLine)) # 0
    /\ ~FFMETADATA_CHAPTER_PATTERN(CurLine)
    /\ FFMETADATA_KV_PATTERN(CurLine).matched
    /\ is_parsing_chapter
    /\ LET kv_groups      == FFMETADATA_KV_PATTERN(CurLine)
           key_normalized == lower(strip(kv_groups.key))
           value          == kv_groups.value
           number         == int(value)
       IN  IF key_normalized \in {lower(sStart), lower(sEnd)} /\ IsNone(number)
           THEN /\ Raise("ValueError")
                /\ UNCHANGED <<line_index, chapter_vars>>
           ELSE /\ start_time' = IF key_normalized = lower(sStart)
                                 THEN Some(milliseconds_to_time(Get(number)))
                                 ELSE start_time
                /\ end_time' = IF key_normalized = lower(sEnd)
                               THEN Some(milliseconds_to_time(Get(number)))
                               ELSE end_time
                /\ title' = IF key_normalized = sTitle THEN Some(value) ELSE title
                /\ description' = IF key_normalized = sDescription
                                  THEN Some(value) ELSE description
                /\ line_index' = line_index + 1
                /\ UNCHANGED <<lpc, error>>
    /\ UNCHANGED non_codec_vars
    /\ UNCHANGED <<metadata, content, lines, tags, chapters, is_parsing_chapter,
                   loaded>>

\* mutant: an incomplete open block is as fatal at the end as at a boundary
LoadsReturn_strict ==
    /\ lpc = "loop"
    /\ line_index + 2 > Len(lines)
    /\ IF is_parsing_chapter /\ ChapterIncomplete(title, start_time, end_time)
       THEN /\ Raise("ValueError")
            /\ UNCHANGED <<chapters, loaded>>
       ELSE /\ chapters' = IF is_parsing_chapter
                           THEN Append(chapters,
                                       MediaChapter(Get(title), description,
                                                    Get(start_time), Get(end_time)))
                           ELSE chapters
            /\ loaded' = Some(MediaMetadata(tags, chapters'))
            /\ lpc' = "returned"
            /\ UNCHANGED error
    /\ UNCHANGED non_codec_vars
    /\ UNCHANGED <<metadata, content, lines, line_index, tags, is_parsing_chapter,
                   chapter_vars>>

\* lines 120-129: the end of the input
LoadsReturn ==
    /\ lpc = "loop"
    /\ line_index + 2 > Len(lines)
    /\ LET media_chapter ==
             build_media_chapter(title, description, start_time, end_time)
       IN  /\ chapters' = IF is_parsing_chapter /\ ~IsNone(media_chapter)
                          THEN Append(chapters, Get(media_chapter))
                          ELSE chapters
           /\ loaded' = Some(MediaMetadata(tags, chapters'))
    /\ lpc' = "returned"
    /\ UNCHANGED non_codec_vars
    /\ UNCHANGED <<metadata, content, lines, line_index, tags, is_parsing_chapter,
                   chapter_vars, error>>

LoadsNext ==
    \/ LoadsCall
    \/ LoadsSkipEmpty
    \/ LoadsChapterMarker
    \/ LoadsSkipNoMatch
    \/ LoadsTag
    \/ LoadsChapterKey
    \/ LoadsReturn

\* dumps_ffmetadata(metadata), its text then handed to loads_ffmetadata
DumpsFfmetadata ==
    /\ lpc = "dump"
    /\ content' = dumps_ffmetadata(Get(metadata))
    /\ lpc' = "call"
    /\ UNCHANGED non_codec_vars
    /\ UNCHANGED <<metadata, lines, line_index, tags, chapters, is_parsing_chapter,
                   chapter_vars, error, loaded>>

DumpsNext == DumpsFfmetadata \/ LoadsNext

-----------------------------------------------------------------------------
(* services.py: probe_metadata *)

ProbeIdle ==
    /\ is_file = FALSE
    /\ probe = [format |-> None, chapters |-> <<>>]
    /\ sorted_chapters = <<>>
    /\ chapter_index = 0
    /\ probe_tags = <<>>
    /\ probe_chapters = <<>>
    /\ warnings = <<>>
    /\ ppc = "idle"
    /\ probe_error = ""
    /\ probed = None

\* ffprobe's seconds string of a millisecond count: "%d.%06d"
SecondsStr(ms) ==
    IntToStr(ms \div 1000) \o <<".">> \o ZeroPad(IntToStr(ms % 1000), 3)
    \o <<"0", "0", "0">>

\* int(float(s) * 1000) of a decimal string s: the product truncated.  The
\* strings probed here are multiples of 0.25 s, which binary floating point
\* holds exactly, so the float product is the exact one.
SecondsToMs(s) ==
    LET w    == DigitRun(s, 1)
        frac == IF w < Len(s) /\ s[w + 1] = "."
                THEN SubSeq(s, w + 2, w + 1 + DigitRun(s, w + 2)) ELSE <<>>
        f3   == SubSeq(frac \o <<"0", "0", "0">>, 1, 3)
    IN  DigitsToInt(SubSeq(s, 1, w)) * 1000 + DigitsToInt(f3)

\* sorted(chapters, key=lambda chapter: chapter["start"]): a stable sort, so
\* a record goes behind every record whose start is not greater
RECURSIVE InsertByStart(_, _)
InsertByStart(sorted, c) ==
    IF Len(sorted) = 0 THEN <<c>>
    ELSE IF sorted[Len(sorted)].start <= c.start THEN Append(sorted, c)
    ELSE Append(InsertByStart(SubSeq(sorted, 1, Len(sorted) - 1), c),
                sorted[Len(sorted)])

RECURSIVE SortedByStart(_)
SortedByStart(cs) ==
    IF Len(cs) = 0 THEN <<>>
    ELSE InsertByStart(SortedByStart(SubSeq(cs, 1, Len(cs) - 1)), cs[Len(cs)])

\* not chapter_start or not chapter_end
ChapterTimesMissing(chapter) ==
    ~TruthyStr(chapter.start_time) \/ ~TruthyStr(chapter.end_time)

\* lines 229-236: the MediaChapter of a raw record with both times
ProjectChapter(chapter) ==
    MediaChapter(IF IsNone(chapter.tags.title) THEN <<>>
                 ELSE Get(chapter.tags.title),
                 chapter.tags.description,
                 milliseconds_to_time(SecondsToMs(Get(chapter.start_time))),
                 milliseconds_to_time(SecondsToMs(Get(chapter.end_time))))

\* probe_metadata as a function of a probe result that has a format: the
\* tags with their keys in lower case, and the chapters with both times,
\* sorted by start and projected
probe_metadata(probe_data) ==
    LET HasTimes(chapter) == ~ChapterTimesMissing(chapter)
        kept == SelectSeq(SortedByStart(probe_data.chapters), HasTimes)
        fmt  == Get(probe_data.format)
    IN  MediaMetadata([i \in 1..Len(fmt.tags) |->
                          <<lower(fmt.tags[i][1]), fmt.tags[i][2]>>],
                      [i \in 1..Len(kept) |-> ProjectChapter(kept[i])])

ProbeRaise(kind) ==
    /\ ppc' = "raised"
    /\ probe_error' = kind

\* lines 199-218: the checks, the format tags, and the sorted chapter records
ProbeCall ==
    /\ ppc = "call"
    /\ IF ~is_file
       THEN /\ ProbeRaise("FileNotFoundError")
            /\ UNCHANGED <<probe_tags, sorted_chapters>>
       ELSE IF IsNone(probe.format)
       THEN /\ ProbeRaise("ValueError")
            /\ UNCHANGED <<probe_tags, sorted_chapters>>
       ELSE /\ probe_tags' = [i \in 1..Len(Get(probe.format).tags) |->
                                <<lower(Get(probe.format).tags[i][1]),
                                  Get(probe.format).tags[i][2]>>]
            /\ sorted_chapters' = SortedByStart(probe.chapters)
            /\ ppc' = "chapters"
            /\ UNCHANGED probe_error
    /\ UNCHANGED <<is_file, probe, chapter_index, probe_chapters, warnings, probed>>
    /\ UNCHANGED non_probe_vars

\* mutant: the loop stops at the first record without its times
ProbeSkipChapter_break ==
    /\ ppc = "chapters"
    /\ chapter_index < Len(sorted_chapters)
    /\ ChapterTimesMissing(sorted_chapters[chapter_index + 1])
    /\ warnings' = Append(warnings, chapter_index)
    /\ chapter_index' = Len(sorted_chapters)
    /\ UNCHANGED <<is_file, probe, sorted_chapters, probe_tags, probe_chapters,
                   ppc, probe_error, probed>>
    /\ UNCHANGED non_probe_vars

\* lines 219-227: a record without start_time or end_time is warned about
ProbeSkipChapter ==
    /\ ppc = "chapters"
    /\ chapter_index < Len(sorted_chapters)
    /\ ChapterTimesMissing(sorted_chapters[chapter_index + 1])
    /\ warnings' = Append(warnings, chapter_index)
    /\ chapter_index' = chapter_index + 1
    /\ UNCHANGED <<is_file, probe, sorted_chapters, probe_tags, probe_chapters,
                   ppc, probe_error, probed>>
    /\ UNCHANGED non_probe_vars

\* lines 219-236: a record with both times becomes a MediaChapter
ProbeAppendChapter ==
    /\ ppc = "chapters"
    /\ chapter_index < Len(sorted_chapters)
    /\ ~ChapterTimesMissing(sorted_chapters[chapter_index + 1])
    /\ probe_chapters' = Append(probe_chapters,
                                ProjectChapter(sorted_chapters[chapter_index + 1]))
    /\ chapter_index' = chapter_index + 1
    /\ UNCHANGED <<is_file, probe, sorted_chapters, probe_tags, warnings,
                   ppc, probe_error, probed>>
    /\ UNCHANGED non_probe_vars

\* line 238
ProbeReturn ==
    /\ ppc = "chapters"
    /\ chapter_index = Len(sorted_chapters)
    /\ probed' = Some(MediaMetadata(probe_tags, probe_chapters))
    /\ ppc' = "returned"
    /\ UNCHANGED <<is_file, probe, sorted_chapters, chapter_index, probe_tags,
                   probe_chapters, warnings, probe_error>>
    /\ UNCHANGED non_probe_vars

ProbeNext == ProbeCall \/ ProbeSkipChapter \/ ProbeAppendChapter \/ ProbeReturn

-----------------------------------------------------------------------------
(* validators.py and cli/prompt.py: prompt_tag *)

PromptIdle ==
    /\ tag_definition = [key |-> "", validators |-> <<>>, default |-> "none"]
    /\ default = None
    /\ tag_default = None
    /\ tag_value = <<>>
    /\ is_valid = TRUE
    /\ validator_index = 0
    /\ console = <<>>
    /\ asks = 0
    /\ prpc = "idle"
    /\ prompted = None

\* the validators the factories of validators.py return; label is the
\* argument as the error message shows it
validate_pattern(pattern) ==
    [kind |-> "pattern", label |-> pattern, choices |-> {}, max_length |-> 0]
validate_choice(choices) ==
    [kind |-> "choice", label |-> "choices", choices |-> choices, max_length |-> 0]
validate_max_length(n) ==
    [kind |-> "max_length", label |-> ToString(n), choices |-> {}, max_length |-> n]
validate_dateformat(format) ==
    [kind |-> "dateformat", label |-> format, choices |-> {}, max_length |-> 0]

AllDigits(s) == Len(s) > 0 /\ \A i \in 1..Len(s) : s[i] \in DigitChars

\* re.match(pattern, value) for the patterns of the definitions modelled;
\* "$" matches at the end and before one final "\n"
PatternMatches(pattern, value) ==
    LET v == IF Len(value) > 0 /\ value[Len(value)] = "\n"
             THEN SubSeq(value, 1, Len(value) - 1) ELSE value
    IN  CASE pattern = "^\\d+$" -> AllDigits(v)
          [] pattern = "^\\d+\\/\\d+$" ->
                \E i \in 1..Len(v) :
                    /\ v[i] = "/"
                    /\ AllDigits(SubSeq(v, 1, i - 1))
                    /\ AllDigits(SubSeq(v, i + 1, Len(v)))
          [] pattern = "^[A-Z]{2}$" ->
                Len(v) = 2 /\ \A i \in 1..2 : \E j \in 1..26 : v[i] = UpperLetters[j]

\* calendar.monthrange, as the datetime constructor checks the day
IsLeap(y) == (y % 4 = 0) /\ ((y % 100 # 0) \/ (y % 400 = 0))
DaysInMonth(y, m) ==
    IF m = 2 THEN (IF IsLeap(y) THEN 29 ELSE 28)
    ELSE IF m \in {4, 6, 9, 11} THEN 30 ELSE 31

\* %m (1[0-2]|0[1-9]|[1-9]) or %d (3[0-1]|[1-2]\d|0[1-9]|[1-9]| [1-9]) of
\* strptime at position i of s, one of the characters seps following it:
\* one or two digits making a number from 1 to max, or, where blank is
\* set, a space and a digit from 1 to 9; the width taken, 0 for none
DateFieldWidth(s, i, max, seps, blank) ==
    LET w == DigitRun(s, i)
    IN  IF /\ w \in {1, 2}
           /\ DigitsToInt(SubSeq(s, i, i + w - 1)) \in 1..max
           /\ i + w <= Len(s)
           /\ s[i + w] \in seps
        THEN w
        ELSE IF /\ blank
                /\ i + 2 <= Len(s)
                /\ s[i] = " "
                /\ s[i + 1] \in DigitChars \ {"0"}
                /\ s[i + 2] \in seps
        THEN 2 ELSE 0

\* datetime.strptime(value, "%Y-%m-%dT%H:%M:%S.%fZ") returns: the format's
\* regex is compiled with re.IGNORECASE, %Y is four digits, the whole of
\* value has to be taken, and the date has to exist
strptime_YmdTHMSfZ(value) ==
    LET n  == Len(value)
        mw == DateFieldWidth(value, 6, 12, {"-"}, FALSE)
        di == 6 + mw + 1
        dw == IF mw = 0 THEN 0 ELSE DateFieldWidth(value, di, 31, {"T", "t"}, TRUE)
        ti == di + dw + 1
        y  == DigitsToInt(SubSeq(value, 1, 4))
        m  == DigitsToInt(SubSeq(value, 6, 6 + mw - 1))
        d  == IF value[di] = " " THEN DigitVal(value[di + 1])
              ELSE DigitsToInt(SubSeq(value, di, di + dw - 1))
    IN  /\ DigitRun(value, 1) = 4
        /\ n >= 5 /\ value[5] = "-"
        /\ dw # 0
        /\ n >= ti /\ value[n] \in {"Z", "z"}
        /\ ~IsNone(strptime_HMSf(SubSeq(value, ti, n - 1)))
        /\ y >= 1
        /\ d <= DaysInMonth(y, m)

\* datetime.strptime(value, format) returning, for the format of the
\* definitions modelled
DateformatMatches(format, value) ==
    CASE format = "%Y-%m-%dT%H:%M:%S.%fZ" -> strptime_YmdTHMSfZ(value)

Message(kind, value, arg) == [kind |-> kind, value |-> value, arg |-> arg]

\* validator(value): the ValueError it raises, None when it returns
Validate(validator, value) ==
    LET ok == CASE validator.kind = "pattern" ->
                       PatternMatches(validator.label, value)
                [] validator.kind = "choice" -> value \in validator.choices
                [] validator.kind = "max_length" ->
                       ~(Len(value) > validator.max_length)
                [] validator.kind = "dateformat" ->
                       DateformatMatches(validator.label, value)
    IN  IF ok THEN None
        ELSE Some(Message(validator.kind, value, validator.label))

\* entries of TAG_DEFINITIONS, and a definition with two validators
TagDefinition(key, validators, dflt) ==
    [key |-> key, validators |-> validators, default |-> dflt]

TAG_title == TagDefinition("title", <<>>, "none")
TAG_encoded_by == TagDefinition("encoded_by", <<>>, "getenv")
TAG_season_number ==
    TagDefinition("season_number", <<validate_pattern("^\\d+$")>>, "none")
TAG_rating ==
    TagDefinition("rating", <<validate_choice({<<"0">>, <<"1">>, <<"2">>})>>, "one")
TAG_two_validators ==
    TagDefinition("two_validators",
                  <<validate_pattern("^\\d+$"), validate_max_length(2)>>, "none")
TAG_creation_time ==
    TagDefinition("creation_time",
                  <<validate_dateformat("%Y-%m-%dT%H:%M:%S.%fZ")>>, "now")

\* datetime.datetime, and the clock readings datetime.now() gives
DateTime(y, mo, d, h, mi, sec, us) ==
    [year |-> y, month |-> mo, day |-> d,
     hour |-> h, minute |-> mi, second |-> sec, microsecond |-> us]

NowSamples ==
    {DateTime(2021, 1, 2, 3, 4, 5, 123456),
     DateTime(2021, 1, 2, 3, 4, 5, 0),
     DateTime(1999, 12, 31, 23, 59, 59, 10)}

\* datetime.isoformat(): "YYYY-MM-DDTHH:MM:SS.ffffff", and without the
\* fraction when microsecond is 0
isoformat(dt) ==
    ZeroPad(IntToStr(dt.year), 4) \o <<"-">>
    \o ZeroPad(IntToStr(dt.month), 2) \o <<"-">>
    \o ZeroPad(IntToStr(dt.day), 2) \o <<"T">>
    \o ZeroPad(IntToStr(dt.hour), 2) \o <<":">>
    \o ZeroPad(IntToStr(dt.minute), 2) \o <<":">>
    \o ZeroPad(IntToStr(dt.second), 2)
    \o (IF dt.microsecond = 0 THEN <<>>
        ELSE <<".">> \o ZeroPad(IntToStr(dt.microsecond), 6))

\* tag_definition.default(): what the provider may return
\* ("one" is lambda: "1"; "getenv" is os.getenv("FFMETA_ENCODED_BY");
\* "now" is lambda: f"{datetime.now().isoformat()}Z")
DefaultProvided(definition) ==
    CASE definition.default = "one" -> {Some(<<"1">>)}
      [] definition.default = "now" ->
             {Some(isoformat(now) \o <<"Z">>) : now \in NowSamples}
      [] definition.default = "getenv" -> {None, Some(<<"m", "e">>)}
      [] OTHER -> {None}

\* Prompt.ask(..., default=default or ""): the text typed, the default when
\* nothing was typed; prompt_value turns None into ""
Answer(typed, dflt) ==
    IF Len(typed) = 0 THEN (IF TruthyStr(dflt) THEN Get(dflt) ELSE <<>>) ELSE typed

InputSamples ==
    {<<>>, <<"1">>, <<"1", "2", "3">>, <<"a", "b">>, <<"a", "b", "c", " ">>}

MaxAsks == 3

\* lines 130-137: the description is printed
PromptCall ==
    /\ prpc = "call"
    /\ console' = Append(console, Message("description", <<>>, tag_definition.key))
    /\ prpc' = "loop"
    /\ UNCHANGED <<tag_definition, default, tag_default, tag_value, is_valid,
                   validator_index, asks, prompted>>
    /\ UNCHANGED non_prompt_vars

\* lines 140-145
PromptLoop ==
    /\ prpc = "loop"
    /\ is_valid' = TRUE
    /\ IF TruthyStr(default) THEN tag_default' = default
       ELSE IF tag_definition.default # "none"
       THEN tag_default' \in DefaultProvided(tag_definition)
       ELSE tag_default' = None
    /\ prpc' = "ask"
    /\ UNCHANGED <<tag_definition, default, tag_value, validator_index, console,
                   asks, prompted>>
    /\ UNCHANGED non_prompt_vars

\* line 146 and prompt_value, lines 84-106: one answer of the user; an empty
\* one is asked for again, another is stripped and returned
PromptValue ==
    /\ prpc = "ask"
    /\ asks < MaxAsks
    /\ asks' = asks + 1
    /\ \E typed \in InputSamples :
          LET value == Answer(typed, tag_default)
          IN  IF Len(value) = 0
              THEN /\ console' = Append(console, Message("empty", <<>>, ""))
                   /\ UNCHANGED <<tag_value, validator_index, prpc>>
              ELSE /\ tag_value' = strip(value)
                   /\ validator_index' = 0
                   /\ prpc' = "validate"
                   /\ UNCHANGED console
    /\ UNCHANGED <<tag_definition, default, tag_default, is_valid, prompted>>
    /\ UNCHANGED non_prompt_vars

\* mutant: the loop over the validators stops at the first failure
PromptValidate_break ==
    /\ prpc = "validate"
    /\ validator_index < Len(tag_definition.validators)
    /\ LET exc == Validate(tag_definition.validators[validator_index + 1], tag_value)
       IN  IF IsNone(exc)
           THEN /\ validator_index' = validator_index + 1
                /\ UNCHANGED <<is_valid, console>>
           ELSE /\ is_valid' = FALSE
                /\ console' = Append(console, Get(exc))
                /\ validator_index' = Len(tag_definition.validators)
    /\ UNCHANGED <<tag_definition, default, tag_default, tag_value, asks, prpc,
                   prompted>>
    /\ UNCHANGED non_prompt_vars

\* lines 147-152: one validator; its ValueError is printed and remembered
PromptValidate ==
    /\ prpc = "validate"
    /\ validator_index < Len(tag_definition.validators)
    /\ LET exc == Validate(tag_definition.validators[validator_index + 1], tag_value)
       IN  IF IsNone(exc)
           THEN UNCHANGED <<is_valid, console>>
           ELSE /\ is_valid' = FALSE
                /\ console' = Append(console, Get(exc))
    /\ validator_index' = validator_index + 1
    /\ UNCHANGED <<tag_definition, default, tag_default, tag_value, asks, prpc,
                   prompted>>
    /\ UNCHANGED non_prompt_vars

\* lines 154-155
PromptRetry ==
    /\ prpc = "validate"
    /\ validator_index = Len(tag_definition.validators)
    /\ ~is_valid
    /\ prpc' = "loop"
    /\ UNCHANGED <<tag_definition, default, tag_default, tag_value, is_valid,
                   validator_index, console, asks, prompted>>
    /\ UNCHANGED non_prompt_vars

\* mutant: the value is returned whatever the validators said
PromptReturn_unchecked ==
    /\ prpc = "validate"
    /\ validator_index = Len(tag_definition.validators)
    /\ prompted' = Some(tag_value)
    /\ prpc' = "returned"
    /\ UNCHANGED <<tag_definition, default, tag_default, tag_value, is_valid,
                   validator_index, console, asks>>
    /\ UNCHANGED non_prompt_vars

\* line 157
PromptReturn ==
    /\ prpc = "validate"
    /\ validator_index = Len(tag_definition.validators)
    /\ is_valid
    /\ prompted' = Some(tag_value)
    /\ prpc' = "returned"
    /\ UNCHANGED <<tag_definition, default, tag_default, tag_value, is_valid,
                   validator_index, console, asks>>
    /\ UNCHANGED non_prompt_vars

PromptNext ==
    \/ PromptCall
    \/ PromptLoop
    \/ PromptValue
    \/ PromptValidate
    \/ PromptRetry
    \/ PromptReturn

-----------------------------------------------------------------------------
(* types.py: the tag catalog, iter_desired_tags and the MediaMetadata       *)
(* methods; media.py: get_media_type; cli/helpers.py: edit_metadata_tags    *)

K_album_artist == <<"a", "l", "b", "u", "m", "_", "a", "r", "t", "i", "s", "t">>
K_album == <<"a", "l", "b", "u", "m">>
K_sort_album == <<"s", "o", "r", "t", "_", "a", "l", "b", "u", "m">>
K_artist == <<"a", "r", "t", "i", "s", "t">>
K_sort_artist == <<"s", "o", "r", "t", "_", "a", "r", "t", "i", "s", "t">>
K_comment == <<"c", "o", "m", "m", "e", "n", "t">>
K_compliation == <<"c", "o", "m", "p", "l", "i", "a", "t", "i", "o", "n">>
K_copyright == <<"c", "o", "p", "y", "r", "i", "g", "h", "t">>
K_creation_time == <<"c", "r", "e", "a", "t", "i", "o", "n", "_", "t", "i", "m", "e">>
K_date == <<"d", "a", "t", "e">>
K_year == <<"y", "e", "a", "r">>
K_encoded_by == <<"e", "n", "c", "o", "d", "e", "d", "_", "b", "y">>
K_encoder == <<"e", "n", "c", "o", "d", "e", "r">>
K_episode_id == <<"e", "p", "i", "s", "o", "d", "e", "_", "i", "d">>
K_episode_sort == <<"e", "p", "i", "s", "o", "d", "e", "_", "s", "o", "r", "t">>
K_season_number == <<"s", "e", "a", "s", "o", "n", "_", "n", "u", "m", "b", "e", "r">>
K_genre == <<"g", "e", "n", "r", "e">>
K_grouping == <<"g", "r", "o", "u", "p", "i", "n", "g">>
K_hd_video == <<"h", "d", "_", "v", "i", "d", "e", "o">>
K_language == <<"l", "a", "n", "g", "u", "a", "g", "e">>
K_lyrics == <<"l", "y", "r", "i", "c", "s">>
K_media_type == <<"m", "e", "d", "i", "a", "_", "t", "y", "p", "e">>
K_network == <<"n", "e", "t", "w", "o", "r", "k">>
K_publisher == <<"p", "u", "b", "l", "i", "s", "h", "e", "r">>
K_producer == <<"p", "r", "o", "d", "u", "c", "e", "r">>
K_performer == <<"p", "e", "r", "f", "o", "r", "m", "e", "r">>
K_composer == <<"c", "o", "m", "p", "o", "s", "e", "r">>
K_director == <<"d", "i", "r", "e", "c", "t", "o", "r">>
K_show == <<"s", "h", "o", "w">>
K_synopsis == <<"s", "y", "n", "o", "p", "s", "i", "s">>
K_description == <<"d", "e", "s", "c", "r", "i", "p", "t", "i", "o", "n">>
K_title == <<"t", "i", "t", "l", "e">>
K_sort_name == <<"s", "o", "r", "t", "_", "n", "a", "m", "e">>
K_subtitle == <<"s", "u", "b", "t", "i", "t", "l", "e">>
K_track == <<"t", "r", "a", "c", "k">>
K_disc == <<"d", "i", "s", "c">>
K_rating == <<"r", "a", "t", "i", "n", "g">>
K_location == <<"l", "o", "c", "a", "t", "i", "o", "n">>
K_keywords == <<"k", "e", "y", "w", "o", "r", "d", "s">>
K_URL == <<"U", "R", "L">>
K_podcast == <<"p", "o", "d", "c", "a", "s", "t">>
K_category == <<"c", "a", "t", "e", "g", "o", "r", "y">>
K_episode_uid == <<"e", "p", "i", "s", "o", "d", "e", "_", "u", "i", "d">>

\* the key of the definition stored under "grouping": its second and third
\* positional arguments are swapped, so its key is the description text
GroupingKey ==
    <<"T", "h", "e", " ", "n", "a", "m", "e", " ", "o", "f", " ", "t", "h", "e", " ", "g", "r", "o", "u", "p", " ">>
    \o <<"t", "h", "i", "s", " ", "c", "o", "n", "t", "e", "n", "t", " ", "b", "e", "l", "o", "n", "g", "s", " ", "t", "o">>

\* TagDefinition as the catalog holds it: key and write_key
Definition(key, write_key) == [key |-> key, write_key |-> write_key]

TAG_DEFINITIONS ==
       (K_album_artist :> Definition(K_album_artist, None))
    @@ (K_album :> Definition(K_album, None))
    @@ (K_sort_album :> Definition(K_sort_album, Some(<<"a", "l", "b", "u", "m", "-", "s", "o", "r", "t">>)))
    @@ (K_artist :> Definition(K_artist, Some(<<"a", "u", "t", "h", "o", "r">>)))
    @@ (K_sort_artist :> Definition(K_sort_artist, Some(<<"a", "r", "t", "i", "s", "t", "-", "s", "o", "r", "t">>)))
    @@ (K_comment :> Definition(K_comment, None))
    @@ (K_compliation :> Definition(K_compliation, None))
    @@ (K_copyright :> Definition(K_copyright, None))
    @@ (K_creation_time :> Definition(K_creation_time, None))
    @@ (K_date :> Definition(K_date, None))
    @@ (K_year :> Definition(K_year, None))
    @@ (K_encoded_by :> Definition(K_encoded_by, None))
    @@ (K_encoder :> Definition(K_encoder, None))
    @@ (K_episode_id :> Definition(K_episode_id, None))
    @@ (K_episode_sort :> Definition(K_episode_sort, None))
    @@ (K_season_number :> Definition(K_season_number, None))
    @@ (K_genre :> Definition(K_genre, None))
    @@ (K_grouping :> Definition(GroupingKey, None))
    @@ (K_hd_video :> Definition(K_hd_video, None))
    @@ (K_language :> Definition(K_language, None))
    @@ (K_lyrics :> Definition(K_lyrics, None))
    @@ (K_media_type :> Definition(K_media_type, None))
    @@ (K_network :> Definition(K_network, None))
    @@ (K_publisher :> Definition(K_publisher, None))
    @@ (K_producer :> Definition(K_producer, None))
    @@ (K_performer :> Definition(K_performer, None))
    @@ (K_composer :> Definition(K_composer, None))
    @@ (K_director :> Definition(K_director, None))
    @@ (K_show :> Definition(K_show, None))
    @@ (K_synopsis :> Definition(K_synopsis, None))
    @@ (K_description :> Definition(K_description, None))
    @@ (K_title :> Definition(K_title, None))
    @@ (K_sort_name :> Definition(K_sort_name, Some(<<"t", "i", "t", "l", "e", "-", "s", "o", "r", "t">>)))
    @@ (K_subtitle :> Definition(K_subtitle, None))
    @@ (K_track :> Definition(K_track, None))
    @@ (K_disc :> Definition(K_disc, None))
    @@ (K_rating :> Definition(K_rating, None))
    @@ (K_location :> Definition(K_location, None))
    @@ (K_keywords :> Definition(K_keywords, None))
    @@ (K_URL :> Definition(K_URL, None))
    @@ (K_podcast :> Definition(K_podcast, None))
    @@ (K_category :> Definition(K_category, None))
    @@ (K_episode_uid :> Definition(K_episode_uid, None))

REQUIRED_TAG_DEFINITIONS ==
    <<TAG_DEFINITIONS[K_title], TAG_DEFINITIONS[K_description],
      TAG_DEFINITIONS[K_language], TAG_DEFINITIONS[K_encoder],
      TAG_DEFINITIONS[K_encoded_by], TAG_DEFINITIONS[K_creation_time],
      TAG_DEFINITIONS[K_rating], TAG_DEFINITIONS[K_copyright]>>

\* the values of MediaType
AUDIO == <<"a", "u", "d", "i", "o">>
VIDEO == <<"v", "i", "d", "e", "o">>
IMAGE == <<"i", "m", "a", "g", "e">>
MediaType == {AUDIO, VIDEO, IMAGE}

\* DESIRED_TAG_DEFINITIONS.get(media_type, [])
DESIRED_TAG_DEFINITIONS(media_type) ==
    IF media_type = VIDEO THEN <<TAG_DEFINITIONS[K_hd_video]>>
    ELSE IF media_type = AUDIO
    THEN <<TAG_DEFINITIONS[K_genre], TAG_DEFINITIONS[K_track],
           TAG_DEFINITIONS[K_disc]>>
    ELSE <<>>

\* prefix, *_ = mimetype.split("/")
MimePrefix(mime) ==
    LET slashes == {i \in 1..Len(mime) : mime[i] = "/"}
    IN  IF slashes = {} THEN mime
        ELSE SubSeq(mime, 1, (CHOOSE i \in slashes : \A j \in slashes : i <= j) - 1)

\* get_media_type of an existing file whose guessed mimetype is mime:
\* Optional[MediaType]
get_media_type(mime) ==
    IF IsNone(mime) THEN None
    ELSE IF lower(MimePrefix(Get(mime))) \in MediaType
    THEN Some(lower(MimePrefix(Get(mime))))
    ELSE None

\* mutant: the definitions of the media type come first
iter_desired_tags_desired_first(mime) ==
    (IF IsNone(get_media_type(mime)) THEN <<>>
     ELSE DESIRED_TAG_DEFINITIONS(Get(get_media_type(mime))))
    \o REQUIRED_TAG_DEFINITIONS

\* list(iter_desired_tags(media_filepath)) for an existing file
iter_desired_tags(mime) ==
    REQUIRED_TAG_DEFINITIONS
    \o (IF IsNone(get_media_type(mime)) THEN <<>>
        ELSE DESIRED_TAG_DEFINITIONS(Get(get_media_type(mime))))

\* mutant: the keys are compared as they are written
RECURSIVE find_tags_exact(_, _)
find_tags_exact(ts, definition) ==
    IF Len(ts) = 0 THEN <<>>
    ELSE (IF ts[1][1] = definition.key THEN <<ts[1][2]>> ELSE <<>>)
         \o find_tags_exact(Tail(ts), definition)

\* list(self.find_tags(tag_definition)), self.tags being ts
RECURSIVE find_tags(_, _)
find_tags(ts, definition) ==
    IF Len(ts) = 0 THEN <<>>
    ELSE (IF lower(ts[1][1]) = lower(definition.key) THEN <<ts[1][2]>> ELSE <<>>)
         \o find_tags(Tail(ts), definition)

\* mutant: the iteration ends at the first key outside the catalog
RECURSIVE iter_defined_tags_break(_)
iter_defined_tags_break(ts) ==
    IF Len(ts) = 0 \/ ts[1][1] \notin DOMAIN TAG_DEFINITIONS THEN <<>>
    ELSE <<<<TAG_DEFINITIONS[ts[1][1]], ts[1][2]>>>>
         \o iter_defined_tags_break(Tail(ts))

\* list(self.iter_defined_tags()), self.tags being ts
RECURSIVE iter_defined_tags(_)
iter_defined_tags(ts) ==
    IF Len(ts) = 0 THEN <<>>
    ELSE (IF ts[1][1] \notin DOMAIN TAG_DEFINITIONS THEN <<>>
          ELSE <<<<TAG_DEFINITIONS[ts[1][1]], ts[1][2]>>>>)
         \o iter_defined_tags(Tail(ts))

\* prompt_media_tags, lines 212-222: for each desired definition the default
\* is the first value find_tags gives, and the value is what prompt_tag
\* returns: here the default when there is one, else the text typed
prompt_media_tags(m, mime, typed) ==
    LET definitions == iter_desired_tags(mime)
        \* next(metadata.find_tags(definition)), None on StopIteration
        dflt(d) == IF Len(find_tags(m.tags, d)) = 0 THEN None
                   ELSE Some(find_tags(m.tags, d)[1])
    IN  [i \in 1..Len(definitions) |->
            <<definitions[i],
              IF TruthyStr(dflt(definitions[i]))
              THEN Get(dflt(definitions[i])) ELSE typed>>]

\* edit_metadata_tags
edit_metadata_tags(m, mime, typed) ==
    LET prompted_tags == prompt_media_tags(m, mime, typed)
    IN  [version |-> m.version,
         tags |-> [i \in 1..Len(prompted_tags) |->
                     <<prompted_tags[i][1].key, prompted_tags[i][2]>>],
         chapters |-> m.chapters]

TagsIdle ==
    /\ media_metadata = MediaMetadata(<<>>, <<>>)
    /\ find_definition = Definition(<<>>, None)
    /\ mimetype = None
    /\ found_tags = None
    /\ find_calls = 0
    /\ defined_tags = None
    /\ desired_tags = None
    /\ is_edited = FALSE
    /\ ffmetadata_text = None
    /\ tgpc = "idle"

MaxFindCalls == 2

\* list(media_metadata.find_tags(find_definition)); may be called again
FindTags ==
    /\ tgpc \in {"ready", "finding"}
    /\ find_calls < MaxFindCalls
    /\ found_tags' = Some(find_tags(media_metadata.tags, find_definition))
    /\ find_calls' = find_calls + 1
    /\ tgpc' = "finding"
    /\ UNCHANGED <<media_metadata, find_definition, mimetype, defined_tags,
                   desired_tags, is_edited, ffmetadata_text>>
    /\ UNCHANGED non_tags_vars

\* list(media_metadata.iter_defined_tags()), also after find_tags
IterDefinedTags ==
    /\ tgpc \in {"ready", "finding"}
    /\ defined_tags' = Some(iter_defined_tags(media_metadata.tags))
    /\ tgpc' = "done"
    /\ UNCHANGED <<media_metadata, find_definition, mimetype, found_tags,
                   find_calls, desired_tags, is_edited, ffmetadata_text>>
    /\ UNCHANGED non_tags_vars

\* list(iter_desired_tags(media_filepath))
IterDesiredTags ==
    /\ tgpc = "ready"
    /\ desired_tags' = Some(iter_desired_tags(mimetype))
    /\ tgpc' = "done"
    /\ UNCHANGED <<media_metadata, find_definition, mimetype, found_tags,
                   find_calls, defined_tags, is_edited, ffmetadata_text>>
    /\ UNCHANGED non_tags_vars

EditValueSamples == {<<"v">>, <<"E", "N">>}

\* cli/edit.py line 39: metadata = edit_metadata_tags(console, media, metadata)
EditMetadataTags ==
    /\ tgpc = "ready"
    /\ \E typed \in EditValueSamples :
          media_metadata' = edit_metadata_tags(media_metadata, mimetype, typed)
    /\ is_edited' = TRUE
    /\ tgpc' = "edited"
    /\ UNCHANGED <<find_definition, mimetype, found_tags, find_calls,
                   defined_tags, desired_tags, ffmetadata_text>>
    /\ UNCHANGED non_tags_vars

\* services.py line 295: dump_ffmetadata(metadata, metadata_io), of the
\* metadata as probed or as edited
WriteTags ==
    /\ tgpc \in {"ready", "edited"}
    /\ ffmetadata_text' = Some(dumps_ffmetadata(media_metadata))
    /\ tgpc' = "done"
    /\ UNCHANGED <<media_metadata, find_definition, mimetype, found_tags,
                   find_calls, defined_tags, desired_tags, is_edited>>
    /\ UNCHANGED non_tags_vars

TagsNext ==
    \/ FindTags
    \/ IterDefinedTags
    \/ IterDesiredTags
    \/ EditMetadataTags
    \/ WriteTags

-----------------------------------------------------------------------------
(* serialize.py: dumps_metadata and loads_metadata; cli/app.py: apply.       *)
(* A JSON document is modelled as the JSON value json.dumps writes and      *)
(* json.loads reads back: objects, arrays, strings and null.                *)

JString(s) == [kind |-> "string", value |-> s]
JNull == [kind |-> "null"]
JArray(items) == [kind |-> "array", items |-> items]
\* members: a sequence of <<name, value>>
JObject(members) == [kind |-> "object", members |-> members]

\* the Python objects json.loads builds
PyStr(s) == [class |-> "str", value |-> s]
PyNone == [class |-> "NoneType"]
PyTime(t) == [class |-> "time", value |-> t]
PyList(items) == [class |-> "list", items |-> items]
PyDict(items) == [class |-> "dict", items |-> items]
PyRaise(kind) == [class |-> "raise", error |-> kind]

\* "name" in dictionary, dictionary[name]
HasItem(items, name) == \E i \in 1..Len(items) : items[i][1] = name
Item(items, name) == items[CHOOSE i \in 1..Len(items) : items[i][1] = name][2]

\* json.dumps of one chapter of dataclasses.asdict(metadata): _encoder turns
\* the times into format_timestamp text, None becomes null
JsonOfChapter(chapter) ==
    JObject(<<<<"title", JString(chapter.title)>>,
              <<"start_time", JString(format_timestamp(chapter.start_time))>>,
              <<"end_time", JString(format_timestamp(chapter.end_time))>>,
              <<"description", IF IsNone(chapter.description) THEN JNull
                               ELSE JString(Get(chapter.description))>>>>)

\* dumps_metadata: json.dumps(dataclasses.asdict(metadata), default=_encoder);
\* a (key, value) tuple is written as an array
dumps_metadata(m) ==
    JObject(<<<<"version", JString(m.version)>>,
              <<"tags", JArray([i \in 1..Len(m.tags) |->
                                  JArray(<<JString(m.tags[i][1]),
                                           JString(m.tags[i][2])>>)])>>,
              <<"chapters", JArray([i \in 1..Len(m.chapters) |->
                                      JsonOfChapter(m.chapters[i])])>>>>)

\* parse_timestamp(value) of a decoded value: f"{timestamp}000" of anything
\* but a str is no timestamp
ParsedItem(value) ==
    IF value.class # "str" \/ IsNone(parse_timestamp(value.value))
    THEN PyRaise("ValueError")
    ELSE PyTime(Get(parse_timestamp(value.value)))

\* _decoder, the object_hook: a dict with start_time and end_time gets both
\* parsed, any other dict is returned as it is
decoder(items) ==
    IF HasItem(items, "start_time") /\ HasItem(items, "end_time")
    THEN IF \/ ParsedItem(Item(items, "start_time")).class = "raise"
            \/ ParsedItem(Item(items, "end_time")).class = "raise"
         THEN PyRaise("ValueError")
         ELSE PyDict([i \in 1..Len(items) |->
                        IF items[i][1] \in {"start_time", "end_time"}
                        THEN <<items[i][1], ParsedItem(items[i][2])>>
                        ELSE items[i]])
    ELSE PyDict(items)

\* json.loads(content, object_hook=_decoder) of a JSON value: arrays become
\* lists, objects become dicts handed to the hook, innermost first
RECURSIVE json_loads(_)
json_loads(j) ==
    CASE j.kind = "string" -> PyStr(j.value)
      [] j.kind = "null" -> PyNone
      [] j.kind = "array" ->
            LET items == [i \in 1..Len(j.items) |-> json_loads(j.items[i])]
            IN  IF \E i \in 1..Len(items) : items[i].class = "raise"
                THEN PyRaise("ValueError") ELSE PyList(items)
      [] j.kind = "object" ->
            LET items == [i \in 1..Len(j.members) |->
                            <<j.members[i][1], json_loads(j.members[i][2])>>]
            IN  IF \E i \in 1..Len(items) : items[i][2].class = "raise"
                THEN PyRaise("ValueError") ELSE decoder(items)

\* loads_metadata
loads_metadata(j) == json_loads(j)

JsonIdle ==
    /\ json_metadata = None
    /\ json_content = None
    /\ json_loaded = None
    /\ json_error = ""
    /\ jpc = "idle"

\* dumps_metadata(json_metadata), as the probe command prints it
DumpsMetadata ==
    /\ jpc = "dump"
    /\ json_content' = Some(dumps_metadata(Get(json_metadata)))
    /\ jpc' = "load"
    /\ UNCHANGED <<json_metadata, json_loaded, json_error>>
    /\ UNCHANGED non_json_vars

\* cli/app.py lines 68-69: meta = load_metadata(metadata_io)
LoadsMetadata ==
    /\ jpc = "load"
    /\ IF loads_metadata(Get(json_content)).class = "raise"
       THEN /\ json_error' = loads_metadata(Get(json_content)).error
            /\ jpc' = "raised"
            /\ UNCHANGED json_loaded
       ELSE /\ json_loaded' = Some(loads_metadata(Get(json_content)))
            /\ jpc' = "apply"
            /\ UNCHANGED json_error
    /\ UNCHANGED <<json_metadata, json_content>>
    /\ UNCHANGED non_json_vars

\* cli/app.py line 71, services.py line 295, ffmetadata.py line 189:
\* write_metadata hands meta to dumps_ffmetadata, which reads metadata.tags
ApplyLoaded ==
    /\ jpc = "apply"
    /\ IF Get(json_loaded).class = "dict"
       THEN /\ json_error' = "AttributeError"
            /\ jpc' = "raised"
       ELSE /\ jpc' = "applied"
            /\ UNCHANGED json_error
    /\ UNCHANGED <<json_metadata, json_content, json_loaded>>
    /\ UNCHANGED non_json_vars

JsonNext == DumpsMetadata \/ LoadsMetadata \/ ApplyLoaded

-----------------------------------------------------------------------------
(* services.py: write_metadata *)

Paths == {"media.mp4", "out.mp4", "dir"}

WriteIdle ==
    /\ fs = [p \in Paths |-> "absent"]
    /\ write_arg = MediaMetadata(<<>>, <<>>)
    /\ media_filepath = "media.mp4"
    /\ output_filepath = "out.mp4"
    /\ overwrite = FALSE
    /\ temp_created = FALSE
    /\ temp_exists = FALSE
    /\ temp_text = <<>>
    /\ tool_invoked = FALSE
    /\ write_error = ""
    /\ wpc = "idle"

\* Path.is_file(), Path.exists()
IsFile(p) == fs[p] = "file"
Exists(p) == fs[p] # "absent"

WriteRaise(kind) ==
    /\ write_error' = kind
    /\ wpc' = "raised"

\* mutant: the metadata document is created before the checks
WriteCheck_temp_first ==
    /\ wpc = "call"
    /\ temp_created' = TRUE
    /\ IF ~IsFile(media_filepath) THEN WriteRaise("FileNotFoundError")
       ELSE IF ~overwrite /\ Exists(output_filepath)
       THEN WriteRaise("FileExistsError")
       ELSE IF media_filepath = output_filepath THEN WriteRaise("ValueError")
       ELSE wpc' = "temp" /\ UNCHANGED write_error
    /\ UNCHANGED <<fs, write_arg, media_filepath, output_filepath, overwrite,
                   temp_exists, temp_text, tool_invoked>>
    /\ UNCHANGED non_write_vars

\* lines 282-292: the three checks, in this order
WriteCheck ==
    /\ wpc = "call"
    /\ IF ~IsFile(media_filepath) THEN WriteRaise("FileNotFoundError")
       ELSE IF ~overwrite /\ Exists(output_filepath)
       THEN WriteRaise("FileExistsError")
       ELSE IF media_filepath = output_filepath THEN WriteRaise("ValueError")
       ELSE wpc' = "temp" /\ UNCHANGED write_error
    /\ UNCHANGED <<fs, write_arg, media_filepath, output_filepath, overwrite,
                   temp_created, temp_exists, temp_text, tool_invoked>>
    /\ UNCHANGED non_write_vars

\* lines 294-297: NamedTemporaryFile("w") creates the document,
\* dump_ffmetadata writes it, and metadata_io.close() closes it; a
\* NamedTemporaryFile is made with delete=True, so closing removes the file
WriteTemp ==
    /\ wpc = "temp"
    /\ temp_created' = TRUE
    /\ temp_text' = dumps_ffmetadata(write_arg)
    /\ temp_exists' = FALSE
    /\ wpc' = "run"
    /\ UNCHANGED <<fs, write_arg, media_filepath, output_filepath, overwrite,
                   tool_invoked, write_error>>
    /\ UNCHANGED non_write_vars

\* lines 299-312: the document is looked for, ffmpeg is run on it and the
\* output path is returned
WriteRun ==
    /\ wpc = "run"
    /\ IF ~temp_exists
       THEN /\ WriteRaise("IOError")
            /\ UNCHANGED <<fs, tool_invoked>>
       ELSE /\ tool_invoked' = TRUE
            /\ fs' = [fs EXCEPT ![output_filepath] = "file"]
            /\ wpc' = "returned"
            /\ UNCHANGED write_error
    /\ UNCHANGED <<write_arg, media_filepath, output_filepath, overwrite,
                   temp_created, temp_exists, temp_text>>
    /\ UNCHANGED non_write_vars

WriteNext == WriteCheck \/ WriteTemp \/ WriteRun

-----------------------------------------------------------------------------
(* cli/edit.py: the "edit chapters" command, with cli/prompt.py's            *)
(* prompt_media_chapter and prompt_media_chapters and cli/helpers.py's       *)
(* apply_metadata                                                            *)

EditIdle ==
    /\ edit_probed = <<>>
    /\ chapter_option = None
    /\ edit_metadata = MediaMetadata(<<>>, <<>>)
    /\ entered_chapter = None
    /\ applied = None
    /\ edit_exit = -1
    /\ epc = "idle"

\* what the user types at the three prompts of prompt_media_chapter; an
\* empty text takes the default shown
Answers(ti, st, en) == [title |-> ti, start |-> st, end |-> en]

\* the default of the title prompt and of the two time prompts, lines 267-293
TitleDefault(current_chapter) ==
    IF IsNone(current_chapter) THEN None ELSE Some(Get(current_chapter).title)
StartDefault(current_chapter, previous_chapters) ==
    IF ~IsNone(current_chapter)
    THEN Some(format_timestamp(Get(current_chapter).start_time))
    ELSE IF Len(previous_chapters) > 0
    THEN Some(format_timestamp(previous_chapters[Len(previous_chapters)].end_time))
    ELSE None
EndDefault(current_chapter) ==
    IF IsNone(current_chapter) THEN None
    ELSE Some(format_timestamp(Get(current_chapter).end_time))

\* the three prompts return at once on these answers: the title is not
\* empty and prompt_time takes both times
ChapterAnswered(current_chapter, previous_chapters, answers) ==
    /\ Len(strip(Answer(answers.title, TitleDefault(current_chapter)))) > 0
    /\ ~IsNone(prompt_time(strip(Answer(answers.start,
                   StartDefault(current_chapter, previous_chapters)))))
    /\ ~IsNone(prompt_time(strip(Answer(answers.end, EndDefault(current_chapter)))))

\* prompt_media_chapter, lines 263-295: a chapter of the title and the two
\* times answered, without a description
prompt_media_chapter(current_chapter, previous_chapters, answers) ==
    MediaChapter(
        strip(Answer(answers.title, TitleDefault(current_chapter))),
        None,
        Get(prompt_time(strip(Answer(answers.start,
                StartDefault(current_chapter, previous_chapters))))),
        Get(prompt_time(strip(Answer(answers.end, EndDefault(current_chapter))))))

\* prompt_media_chapters, lines 318-344, the user going on for as many
\* chapters as there are answers: the existing chapters are gone through
\* first, each as the current chapter, then new chapters are asked for
RECURSIVE prompt_media_chapters(_, _, _)
prompt_media_chapters(existing, all_answers, entered) ==
    IF Len(entered) = Len(all_answers) THEN entered
    ELSE LET i       == Len(entered) + 1
             current == IF i <= Len(existing) THEN Some(existing[i]) ELSE None
         IN  prompt_media_chapters(
                 existing, all_answers,
                 Append(entered,
                        prompt_media_chapter(current, entered, all_answers[i])))

\* every prompt of such a run returns at once
RECURSIVE ChaptersAnswered(_, _, _)
ChaptersAnswered(existing, all_answers, entered) ==
    IF Len(entered) = Len(all_answers) THEN TRUE
    ELSE LET i       == Len(entered) + 1
             current == IF i <= Len(existing) THEN Some(existing[i]) ELSE None
         IN  /\ ChapterAnswered(current, entered, all_answers[i])
             /\ ChaptersAnswered(
                    existing, all_answers,
                    Append(entered,
                           prompt_media_chapter(current, entered, all_answers[i])))

\* list.insert(index, item) for 0 <= index <= len(list)
Insert(list, index, item) ==
    SubSeq(list, 1, index) \o <<item>> \o SubSeq(list, index + 1, Len(list))

AnswerSamples ==
    {Answers(<<>>, <<>>, <<>>),
     Answers(<<"X">>,
             <<"0", "0", ":", "0", "0", ":", "0", "2", ".", "0", "0", "0">>,
             <<"0", "0", ":", "0", "0", ":", "0", "3", ".", "0", "0", "0">>)}

MaxNewChapters == 1

\* cli/edit.py lines 57-66 and 78-79: `if chapter:` and the range check
EditChapters ==
    /\ epc = "call"
    /\ IF ~IsNone(chapter_option) /\ Get(chapter_option) # 0
       THEN IF \/ Get(chapter_option) < 0
               \/ Get(chapter_option) >= Len(edit_metadata.chapters)
            THEN epc' = "exited" /\ edit_exit' = 1
            ELSE epc' = "single" /\ UNCHANGED edit_exit
       ELSE epc' = "all" /\ UNCHANGED edit_exit
    /\ UNCHANGED <<edit_probed, chapter_option, edit_metadata, entered_chapter,
                   applied>>
    /\ UNCHANGED non_edit_vars

\* cli/edit.py lines 68-77: metadata.chapters.insert(chapter,
\* prompt_media_chapter(...)), the arguments being evaluated first
EditOneChapter ==
    /\ epc = "single"
    /\ \E answers \in AnswerSamples :
          LET index        == Get(chapter_option)
              chapter_list == edit_metadata.chapters
              current      == Some(chapter_list[index + 1])
              previous     == SubSeq(chapter_list, 1, index)
          IN  /\ ChapterAnswered(current, previous, answers)
              /\ entered_chapter' =
                    Some(prompt_media_chapter(current, previous, answers))
              /\ edit_metadata' =
                    MediaMetadata(edit_metadata.tags,
                                  Insert(chapter_list, index, Get(entered_chapter')))
    /\ epc' = "apply"
    /\ UNCHANGED <<edit_probed, chapter_option, applied, edit_exit>>
    /\ UNCHANGED non_edit_vars

\* cli/edit.py line 79, edit_metadata_chapters: the chapters are the ones
\* prompt_media_chapters returns; the user stops after any existing chapter,
\* or goes through all of them and enters at least one new chapter
EditAllChapters ==
    /\ epc = "all"
    /\ LET existing == edit_metadata.chapters
       IN  \E count \in 1..(Len(existing) + MaxNewChapters) :
             \E all_answers \in [1..count -> AnswerSamples] :
                /\ ChaptersAnswered(existing, all_answers, <<>>)
                /\ edit_metadata' =
                      MediaMetadata(edit_metadata.tags,
                                    prompt_media_chapters(existing, all_answers, <<>>))
    /\ epc' = "apply"
    /\ UNCHANGED <<edit_probed, chapter_option, entered_chapter, applied,
                   edit_exit>>
    /\ UNCHANGED non_edit_vars

\* cli/edit.py line 81 and apply_metadata, cli/helpers.py lines 107-118: the
\* user confirms and write_metadata is called, or declines and the command
\* exits with code 0
ApplyMetadata ==
    /\ epc = "apply"
    /\ applied' = Some(edit_metadata)
    /\ \E confirmed \in BOOLEAN :
          IF confirmed THEN epc' = "write" /\ UNCHANGED edit_exit
          ELSE epc' = "exited" /\ edit_exit' = 0
    /\ UNCHANGED <<edit_probed, chapter_option, edit_metadata, entered_chapter>>
    /\ UNCHANGED non_edit_vars

EditNext == EditChapters \/ EditOneChapter \/ EditAllChapters \/ ApplyMetadata

-----------------------------------------------------------------------------
(* The millisecond inputs of the timestamp round trip *)

MaxHours == 48
MsPerHour == 3600000
MsOffsets == {0, 1, 999, 1000, 59999, 60000, 3599999}
MsSamples == {n \in {h * MsPerHour + o : h \in 0..MaxHours, o \in MsOffsets} :
                n <= MaxHours * MsPerHour}

TimeIdle ==
    /\ milliseconds = 0
    /\ time_value = None
    /\ timestamp = None
    /\ ms_result = None
    /\ tpc = "idle"

TimeInit ==
    /\ EditIdle
    /\ WriteIdle
    /\ JsonIdle
    /\ ParseIdle
    /\ TagsIdle
    /\ CodecIdle
    /\ ProbeIdle
    /\ PromptIdle
    /\ milliseconds \in MsSamples
    /\ time_value = None
    /\ timestamp = None
    /\ ms_result = None
    /\ tpc = "milliseconds_to_time"

MillisecondsToTime ==
    /\ tpc = "milliseconds_to_time"
    /\ time_value' = Some(milliseconds_to_time(milliseconds))
    /\ tpc' = "format_timestamp"
    /\ UNCHANGED <<milliseconds, timestamp, ms_result, non_time_vars>>

FormatTimestamp ==
    /\ tpc = "format_timestamp"
    /\ timestamp' = Some(format_timestamp(Get(time_value)))
    /\ tpc' = "timestamp_to_milliseconds"
    /\ UNCHANGED <<milliseconds, time_value, ms_result, non_time_vars>>

TimestampToMilliseconds ==
    /\ tpc = "timestamp_to_milliseconds"
    /\ ms_result' = timestamp_to_milliseconds(Get(timestamp))
    /\ tpc' = "done"
    /\ UNCHANGED <<milliseconds, time_value, timestamp, non_time_vars>>

TimeNext == MillisecondsToTime \/ FormatTimestamp \/ TimestampToMilliseconds

SpecTime == TimeInit /\ [][TimeNext]_vars

-----------------------------------------------------------------------------
(* The documents handed to loads_ffmetadata *)

lnKV == <<"k", "=", "v">>
lnKW == <<"k", "=", "w">>
lnJunk == <<"#", " ", "x">>
lnBlank == <<" ", "\t">>
lnTitleA == sTitle \o EQ \o <<"A">>
lnTitleB == <<"T", "I", "T", "L", "E", "=", "B", " ">>
lnTitleEmpty == sTitle \o EQ
lnStart0 == sStart \o EQ \o <<"0">>
lnStart5 == <<"s", "t", "a", "r", "t", "=", "5">>
lnStartBad == sStart \o EQ \o <<"x">>
lnEnd5 == sEnd \o EQ \o <<"5">>
lnEnd9 == <<"e", "n", "d", "=", "9">>
lnDescD == sDescription \o EQ \o <<"D">>

HeaderSamples ==
    {sHeader,
     <<"\t", ";", "F", "F", "m", "e", "t", "a", "d", "a", "t", "a", " ">>,
     <<";", "F", "F", "M", "E", "T", "A">>,
     lnKV}

\* the lines before the first chapter: none, tags with a repeated key, tags
\* around ignored lines
TagSectionSamples ==
    {<<>>, <<lnKV>>, <<lnKV, lnKW>>, <<lnKV, lnKV>>, <<lnJunk>>,
     <<lnKW, lnJunk, lnBlank, lnKV>>}

\* chapter blocks: complete ones, ones lacking each required part, one with a
\* repeated key, ignored lines and an unknown key, and one with a bad number
BlockSamples ==
    {<<sChapter, lnTitleA, lnStart0, lnEnd5>>,
     <<lower(sChapter), lnTitleB, lnStart5, lnEnd9, lnDescD>>,
     <<sChapter, lnStart0, lnEnd5>>,
     <<sChapter, lnTitleEmpty, lnStart0, lnEnd5, lnDescD>>,
     <<sChapter, lnTitleA, lnEnd5>>,
     <<sChapter, lnTitleA, lnStart0>>,
     <<sChapter, lnTitleA, lnKV, lnBlank, lnTitleB, lnJunk, lnStart5, lnStart0, lnEnd5>>,
     <<sChapter, lnTitleA, lnStartBad, lnEnd5>>}

MaxBlocks == 2

SeqsUpTo(S, n) == UNION {[1..k -> S] : k \in 0..n}

RECURSIVE Flatten(_)
Flatten(ss) == IF Len(ss) = 0 THEN <<>> ELSE ss[1] \o Flatten(Tail(ss))

\* every document: the canonical header before every body, the other headers
\* before the tag sections alone, and the empty text
Bodies ==
    {ts \o Flatten(bs) : ts \in TagSectionSamples,
                         bs \in SeqsUpTo(BlockSamples, MaxBlocks)}
Documents ==
    {join(NL, <<sHeader>> \o body) : body \in Bodies}
    \cup {join(NL, <<h>> \o ts) : h \in HeaderSamples, ts \in TagSectionSamples}
    \cup {<<>>}

LoadsInit ==
    /\ EditIdle
    /\ WriteIdle
    /\ JsonIdle
    /\ ParseIdle
    /\ TagsIdle
    /\ TimeIdle
    /\ ProbeIdle
    /\ PromptIdle
    /\ metadata = None
    /\ content \in Documents
    /\ lines = <<>>
    /\ line_index = 0
    /\ tags = <<>>
    /\ chapters = <<>>
    /\ is_parsing_chapter = FALSE
    /\ start_time = None
    /\ end_time = None
    /\ title = None
    /\ description = None
    /\ lpc = "call"
    /\ error = ""
    /\ loaded = None

SpecLoads == LoadsInit /\ [][LoadsNext]_vars

-----------------------------------------------------------------------------
(* The probe results handed to probe_metadata *)

\* a raw chapter record of ffprobe with time_base 1/1000: start_time and
\* end_time are the seconds strings of start and of start + 250
RawChapter(start, has_start, has_end, ti, de) ==
    [start |-> start,
     start_time |-> IF has_start THEN Some(SecondsStr(start)) ELSE None,
     end_time |-> IF has_end THEN Some(SecondsStr(start + 250)) ELSE None,
     tags |-> [title |-> ti, description |-> de]]

\* records in and out of order, two with the same start, one without a title,
\* one without each time, and two that lie 2 h and 25 h into the media
RawChapterSamples ==
    {RawChapter(500, TRUE, TRUE, Some(<<"A">>), None),
     RawChapter(0, TRUE, TRUE, Some(<<"B">>), Some(<<"D">>)),
     RawChapter(250, TRUE, TRUE, None, None),
     RawChapter(250, TRUE, TRUE, Some(<<"C">>), None),
     RawChapter(250, FALSE, TRUE, Some(<<"E">>), None),
     RawChapter(0, TRUE, FALSE, Some(<<"F">>), None),
     RawChapter(7200000, TRUE, TRUE, Some(<<"G">>), None),
     RawChapter(90000000, TRUE, TRUE, Some(<<"H">>), None)}

FormatSamples ==
    {None,
     Some([tags |-> <<>>]),
     Some([tags |-> <<<<<<"U", "R", "L">>, <<"u">>>>, <<<<"T", "i", "t", "l", "e">>, <<"T">>>>>>])}

MaxRawChapters == 3

ProbeInit ==
    /\ EditIdle
    /\ WriteIdle
    /\ JsonIdle
    /\ ParseIdle
    /\ TagsIdle
    /\ TimeIdle
    /\ CodecIdle
    /\ PromptIdle
    /\ is_file \in BOOLEAN
    /\ probe \in {[format |-> f, chapters |-> cs] :
                     f \in FormatSamples,
                     cs \in SeqsUpTo(RawChapterSamples, MaxRawChapters)}
    /\ sorted_chapters = <<>>
    /\ chapter_index = 0
    /\ probe_tags = <<>>
    /\ probe_chapters = <<>>
    /\ warnings = <<>>
    /\ ppc = "call"
    /\ probe_error = ""
    /\ probed = None

SpecProbe == ProbeInit /\ [][ProbeNext]_vars

-----------------------------------------------------------------------------
(* The metadata handed to dumps_ffmetadata *)

\* tags: a repeated key, a value with spaces, and a key with a hyphen, as the
\* catalog's write keys "album-sort" and "artist-sort" have
TagSamples ==
    {<<<<"k">>, <<"v">>>>,
     <<<<"k">>, <<"w", " ">>>>,
     <<<<"k", "2">>, <<"x", "=", "y">>>>,
     <<<<"a", "-", "b">>, <<"v">>>>}

\* chapters: with and without a description, one with an empty description,
\* and one with the empty title probe_metadata gives an untitled chapter
ChapterSamples ==
    {MediaChapter(<<"A">>, None, milliseconds_to_time(0), milliseconds_to_time(1500)),
     MediaChapter(<<"B", " ">>, Some(<<"D">>), milliseconds_to_time(1500),
                  milliseconds_to_time(3723004)),
     MediaChapter(<<"A">>, Some(<<>>), milliseconds_to_time(0),
                  milliseconds_to_time(1500)),
     MediaChapter(<<>>, None, milliseconds_to_time(0), milliseconds_to_time(1500))}

MaxTags == 2
MaxChapters == 2

MetadataSamples ==
    {MediaMetadata(t, c) : t \in SeqsUpTo(TagSamples, MaxTags),
                           c \in SeqsUpTo(ChapterSamples, MaxChapters)}

\* what probe_metadata returns for media with titled and untitled chapters
ProbedChapterSamples ==
    {RawChapter(500, TRUE, TRUE, Some(<<"A">>), None),
     RawChapter(0, TRUE, TRUE, Some(<<"B">>), Some(<<"D">>)),
     RawChapter(250, TRUE, TRUE, None, None),
     RawChapter(250, FALSE, TRUE, Some(<<"E">>), None)}

ProbedMetadataSamples ==
    {probe_metadata([format |-> Some([tags |-> <<<<<<"U", "R", "L">>, <<"u">>>>>>]),
                     chapters |-> cs]) :
        cs \in SeqsUpTo(ProbedChapterSamples, MaxChapters)}

DumpsInit ==
    /\ EditIdle
    /\ WriteIdle
    /\ JsonIdle
    /\ ParseIdle
    /\ TagsIdle
    /\ TimeIdle
    /\ ProbeIdle
    /\ PromptIdle
    /\ metadata \in {Some(m) : m \in MetadataSamples \cup ProbedMetadataSamples}
    /\ content = <<>>
    /\ lines = <<>>
    /\ line_index = 0
    /\ tags = <<>>
    /\ chapters = <<>>
    /\ is_parsing_chapter = FALSE
    /\ start_time = None
    /\ end_time = None
    /\ title = None
    /\ description = None
    /\ lpc = "dump"
    /\ error = ""
    /\ loaded = None

SpecDumps == DumpsInit /\ [][DumpsNext]_vars

-----------------------------------------------------------------------------
(* The definitions and defaults prompt_tag is called with *)

DefinitionSamples ==
    {TAG_title, TAG_encoded_by, TAG_season_number, TAG_rating, TAG_two_validators,
     TAG_creation_time}

PromptInit ==
    /\ EditIdle
    /\ WriteIdle
    /\ JsonIdle
    /\ ParseIdle
    /\ TagsIdle
    /\ TimeIdle
    /\ CodecIdle
    /\ ProbeIdle
    /\ tag_definition \in DefinitionSamples
    /\ default \in {None, Some(<<"a", "b", "c">>)}
    /\ tag_default = None
    /\ tag_value = <<>>
    /\ is_valid = TRUE
    /\ validator_index = 0
    /\ console = <<>>
    /\ asks = 0
    /\ prpc = "call"
    /\ prompted = None

SpecPrompt == PromptInit /\ [][PromptNext]_vars

-----------------------------------------------------------------------------
(* The metadata, definitions and media types the tag methods are called on *)

\* tags with catalog keys, with a key outside the catalog, with keys in
\* another letter case, and with a key whose definition has a write_key
TagPairSamples ==
    {<<K_title, <<"X">>>>,
     <<<<"b", "o", "g", "u", "s", "_", "k", "e", "y">>, <<"Y">>>>,
     <<<<"T", "i", "t", "l", "e">>, <<"Z">>>>,
     <<K_artist, <<"A">>>>,
     <<K_URL, <<"u">>>>,
     <<<<"u", "r", "l">>, <<"w">>>>}

MaxDocTags == 2

FindDefinitionSamples ==
    {TAG_DEFINITIONS[K_title], TAG_DEFINITIONS[K_artist],
     TAG_DEFINITIONS[K_URL], TAG_DEFINITIONS[K_grouping]}

MimetypeSamples ==
    {None,
     Some(<<"a", "u", "d", "i", "o", "/", "m", "p", "e", "g">>),
     Some(<<"V", "i", "d", "e", "o", "/", "m", "p", "4">>),
     Some(<<"i", "m", "a", "g", "e", "/", "p", "n", "g">>),
     Some(<<"t", "e", "x", "t", "/", "p", "l", "a", "i", "n">>)}

TagsInit ==
    /\ EditIdle
    /\ WriteIdle
    /\ JsonIdle
    /\ ParseIdle
    /\ TimeIdle
    /\ CodecIdle
    /\ ProbeIdle
    /\ PromptIdle
    /\ media_metadata \in {MediaMetadata(ts, <<>>) :
                             ts \in SeqsUpTo(TagPairSamples, MaxDocTags)}
    /\ find_definition \in FindDefinitionSamples
    /\ mimetype \in MimetypeSamples
    /\ found_tags = None
    /\ find_calls = 0
    /\ defined_tags = None
    /\ desired_tags = None
    /\ is_edited = FALSE
    /\ ffmetadata_text = None
    /\ tgpc = "ready"

SpecTags == TagsInit /\ [][TagsNext]_vars

-----------------------------------------------------------------------------
(* The texts handed to parse_timestamp and the times handed to             *)
(* format_timestamp                                                        *)

HourTexts == {<<>>, <<"7">>, <<"0", "7">>, <<"2", "3">>, <<"2", "4">>, <<"1", "2", "3">>}
MinuteTexts == {<<"8">>, <<"0", "8">>, <<"6", "0">>}
SecondTexts == {<<"9">>, <<"5", "9">>, <<"6", "0">>}
MillisecondTexts == {<<>>, <<"1">>, <<"0", "0", "1">>, <<"0", "0", "1", "0">>}

TimestampTexts ==
    {h \o <<":">> \o m \o <<":">> \o sc \o <<".">> \o f :
        h \in HourTexts, m \in MinuteTexts, sc \in SecondTexts,
        f \in MillisecondTexts}
    \cup {<<>>,
          <<"0", "7", ":", "0", "8", ":", "0", "9">>,
          <<"0", "7", ":", "0", "8", ":", "0", "9", ".", "0", "0", "1", "\n">>,
          <<" ", "0", "7", ":", "0", "8", ":", "0", "9", ".", "0", "0", "1">>,
          <<"0", ":", "0", "0", ":", "0", "1", ".", "5">>}

TimeArgSamples == {milliseconds_to_time(n) : n \in MsSamples}

ParseInit ==
    /\ EditIdle
    /\ WriteIdle
    /\ JsonIdle
    /\ TimeIdle
    /\ CodecIdle
    /\ ProbeIdle
    /\ PromptIdle
    /\ TagsIdle
    /\ parsed_time = None
    /\ \/ /\ time_arg \in {Some(t) : t \in TimeArgSamples}
          /\ parse_text = <<>>
          /\ pspc = "format"
       \/ /\ time_arg = None
          /\ parse_text \in TimestampTexts
          /\ pspc \in {"parse", "prompt"}

SpecParse == ParseInit /\ [][ParseNext]_vars

-----------------------------------------------------------------------------
(* The metadata handed to dumps_metadata *)

JsonInit ==
    /\ EditIdle
    /\ WriteIdle
    /\ TimeIdle
    /\ CodecIdle
    /\ ProbeIdle
    /\ PromptIdle
    /\ TagsIdle
    /\ ParseIdle
    /\ json_metadata \in {Some(m) : m \in MetadataSamples}
    /\ json_content = None
    /\ json_loaded = None
    /\ json_error = ""
    /\ jpc = "dump"

SpecJson == JsonInit /\ [][JsonNext]_vars

-----------------------------------------------------------------------------
(* The file systems and arguments write_metadata is called with *)

WriteArgSamples ==
    {MediaMetadata(<<>>, <<>>),
     MediaMetadata(<<<<K_title, <<"X">>>>>>,
                   <<MediaChapter(<<"A">>, None, milliseconds_to_time(0),
                                  milliseconds_to_time(1500))>>)}

WriteInit ==
    /\ EditIdle
    /\ TimeIdle
    /\ CodecIdle
    /\ ProbeIdle
    /\ PromptIdle
    /\ TagsIdle
    /\ ParseIdle
    /\ JsonIdle
    /\ fs \in [Paths -> {"absent", "file", "dir"}]
    /\ write_arg \in WriteArgSamples
    /\ media_filepath \in Paths
    /\ output_filepath \in Paths
    /\ overwrite \in BOOLEAN
    /\ temp_created = FALSE
    /\ temp_exists = FALSE
    /\ temp_text = <<>>
    /\ tool_invoked = FALSE
    /\ write_error = ""
    /\ wpc = "call"

SpecWrite == WriteInit /\ [][WriteNext]_vars

-----------------------------------------------------------------------------
(* The probed chapters and the --chapter option of "edit chapters" *)

EditChapterSamples ==
    {MediaChapter(<<"A">>, None, milliseconds_to_time(0), milliseconds_to_time(500)),
     MediaChapter(<<"B">>, Some(<<"D">>), milliseconds_to_time(500),
                  milliseconds_to_time(1500))}

MaxEditChapters == 2

EditInit ==
    /\ TimeIdle
    /\ CodecIdle
    /\ ProbeIdle
    /\ PromptIdle
    /\ TagsIdle
    /\ ParseIdle
    /\ JsonIdle
    /\ WriteIdle
    /\ edit_probed \in SeqsUpTo(EditChapterSamples, MaxEditChapters)
    /\ chapter_option \in {None} \cup {Some(c) : c \in -1..(MaxEditChapters + 1)}
    /\ edit_metadata = MediaMetadata(<<<<K_title, <<"T">>>>>>, edit_probed)
    /\ entered_chapter = None
    /\ applied = None
    /\ edit_exit = -1
    /\ epc = "call"

SpecEdit == EditInit /\ [][EditNext]_vars

-----------------------------------------------------------------------------
(* Claims about loads_ffmetadata, stated on what it reads and what it keeps *)

lcHeader == <<";", "f", "f", "m", "e", "t", "a", "d", "a", "t", "a">>
lcChapter == <<"[", "c", "h", "a", "p", "t", "e", "r", "]">>

\* the first line of a text: what precedes its first line break
FirstLine(s) ==
    LET breaks == {j \in 1..Len(s) : s[j] \in LineBreaks}
    IN  IF breaks = {} THEN s
        ELSE SubSeq(s, 1, (CHOOSE b \in breaks : \A c \in breaks : b <= c) - 1)

\* a line of shape key=value: a non-empty run of word characters, then "="
KVShape(line) ==
    \E n \in 1..(Len(line) - 1) :
        line[n + 1] = "=" /\ \A i \in 1..n : line[i] \in WordChars
KVKey(line) ==
    SubSeq(line, 1, (CHOOSE n \in 1..Len(line) : line[n] = "="
                        /\ \A i \in 1..(n - 1) : line[i] # "=") - 1)
KVValue(line) == SubSeq(line, Len(KVKey(line)) + 2, Len(line))

\* the open block lacks a non-empty title, a start or an end
OpenBlockLacking ==
    \/ title = None \/ title = Some(<<>>)
    \/ start_time = None
    \/ end_time = None

\* the chapter the open block describes
OpenBlockChapter ==
    [title |-> title[1], description |-> description,
     start_time |-> start_time[1], end_time |-> end_time[1]]

AtMarkerInChapter ==
    /\ lpc = "loop"
    /\ line_index + 2 <= Len(lines)
    /\ lower(lines[line_index + 2]) = lcChapter
    /\ is_parsing_chapter

(* C2: a non-empty input whose first line, lower-cased and stripped, is not *)
(* ";ffmetadata" makes loads_ffmetadata raise ValueError; a header in any   *)
(* letter case and with surrounding whitespace is accepted and the loop is  *)
(* entered.                                                                 *)
C2_HeaderEnforced ==
    [][(lpc = "call" /\ Len(content) > 0) =>
          IF strip(lower(FirstLine(content))) = lcHeader
          THEN lpc' = "loop" /\ error' = ""
          ELSE lpc' = "raised" /\ error' = "ValueError" /\ loaded' = None]_vars

C2_Witness ==
    /\ lpc = "loop"
    /\ lines[1] # sHeader
    /\ strip(lower(lines[1])) = lcHeader

(* C3: a [chapter] marker read while a block is open raises ValueError and  *)
(* returns nothing when the open block lacks a non-empty title, a start or  *)
(* an end; otherwise exactly one MediaChapter is appended for the block.    *)
C3_BoundaryIncompleteFatal ==
    [][/\ AtMarkerInChapter =>
            IF OpenBlockLacking
            THEN lpc' = "raised" /\ error' = "ValueError" /\ loaded' = None
                 /\ chapters' = chapters
            ELSE lpc' = "loop" /\ chapters' = Append(chapters, OpenBlockChapter)
       /\ lpc = "raised" => lpc' = "raised" /\ loaded' = None]_vars

C3_Witness ==
    /\ lpc = "raised"
    /\ error = "ValueError"
    /\ is_parsing_chapter
    /\ line_index + 2 <= Len(lines)
    /\ lower(lines[line_index + 2]) = lcChapter
    /\ title = Some(<<"A">>)
    /\ start_time = None
    /\ end_time # None

C7_TagsOnlyBeforeChapters ==
    [][/\ is_parsing_chapter => (is_parsing_chapter' /\ tags' = tags)
       /\ (lpc = "loop" /\ line_index + 2 <= Len(lines) /\ ~is_parsing_chapter) =>
             LET line == lines[line_index + 2]
             IN  IF KVShape(line)
                 THEN tags' = Append(tags, <<KVKey(line), KVValue(line)>>)
                 ELSE tags' = tags]_vars

C7_Witness ==
    /\ lpc = "returned"
    /\ is_parsing_chapter
    /\ Len(tags) = 2
    /\ tags[1][1] = tags[2][1]
    /\ \E i \in 1..Len(lines) : lines[i] = lnKV /\ i > 4

-----------------------------------------------------------------------------
(* Claims about dumps_ffmetadata *)

\* the milliseconds a time of day stands for
TimeMs(t) == ((t.hour * 60 + t.minute) * 60 + t.second) * 1000 + t.microsecond \div 1000

(* C1: when every chapter of m has a non-empty title,                       *)
(* loads_ffmetadata(dumps_ffmetadata(m)) returns the tags and the chapters  *)
(* of m.  A tag whose key is not made of word characters is not read back.  *)
C1_RoundTrip ==
    (/\ lpc \in {"returned", "raised"}
     /\ metadata # None
     /\ \A i \in 1..Len(Get(metadata).chapters) :
            Get(metadata).chapters[i].title # <<>>)
    => /\ lpc = "returned"
       /\ Get(loaded).tags = Get(metadata).tags
       /\ Get(loaded).chapters = Get(metadata).chapters

\* the block the claim describes for one chapter
ExpectedBlock(ch) ==
    <<sChapter, sTimebase,
      sStart \o EQ \o IntToStr(TimeMs(ch.start_time)),
      sEnd \o EQ \o IntToStr(TimeMs(ch.end_time)),
      sTitle \o EQ \o ch.title>>
    \o (IF ch.description # None
        THEN <<sDescription \o EQ \o ch.description[1]>> ELSE <<>>)

RECURSIVE ExpectedBlocks(_)
ExpectedBlocks(cs) ==
    IF Len(cs) = 0 THEN <<>>
    ELSE IF Len(cs) = 1 THEN ExpectedBlock(cs[1])
    ELSE ExpectedBlock(cs[1]) \o <<<<>>>> \o ExpectedBlocks(Tail(cs))

\* the lines the claim describes for a document
ExpectedLines(m) ==
    <<sHeader>>
    \o [i \in 1..Len(m.tags) |-> m.tags[i][1] \o EQ \o m.tags[i][2]]
    \o <<<<>>>>
    \o ExpectedBlocks(m.chapters)

(* C6: the text of dumps_ffmetadata(m) is the header line, one key=value    *)
(* line per tag, exactly one blank line, then the chapter blocks separated  *)
(* by one blank line, each with a description line iff one is present.      *)
(* With no tags the code writes two blank lines after the header.           *)
C6_DumpFormat ==
    (lpc # "dump" /\ metadata # None)
    => splitlines(content) = ExpectedLines(Get(metadata))

-----------------------------------------------------------------------------
(* C5: for every n in [0, 48 h], time_to_milliseconds(milliseconds_to_time(n)) *)
(* is n.  The code takes the seconds modulo one day, so this fails from 24 h.  *)
C5_RoundTrip48h ==
    tpc = "done" => ms_result = Some(milliseconds)

-----------------------------------------------------------------------------
(* Claims about probe_metadata *)

RawIndexes == 1..Len(probe.chapters)

\* the raw records with both times, which the result is to hold
HasTimes(i) ==
    /\ ~IsNone(probe.chapters[i].start_time)
    /\ Len(Get(probe.chapters[i].start_time)) > 0
    /\ ~IsNone(probe.chapters[i].end_time)
    /\ Len(Get(probe.chapters[i].end_time)) > 0

\* 0-based place of raw record i when the records are put in ascending order
\* of start, equal starts in their raw order
Rank(i) ==
    Cardinality({j \in RawIndexes :
                    \/ probe.chapters[j].start < probe.chapters[i].start
                    \/ /\ probe.chapters[j].start = probe.chapters[i].start
                       /\ j < i})

\* 1-based place in the result of raw record i that has both times
ResultPlace(i) ==
    1 + Cardinality({j \in RawIndexes : HasTimes(j) /\ Rank(j) < Rank(i)})

\* the start time the claim expects for a raw start of n milliseconds
StartOf(t) == TimeMs(t.start_time)

(* C8: the chapters of the MediaMetadata probe_metadata returns are in      *)
(* non-decreasing start_time order, whatever the order of the raw records,  *)
(* and raw records of equal start keep their relative order.  A start of    *)
(* 24 h or more is projected modulo one day, which breaks the order.        *)
C8_ChaptersAscending ==
    ppc = "returned" =>
        LET cs == Get(probed).chapters
        IN  /\ \A k \in 1..(Len(cs) - 1) : StartOf(cs[k]) <= StartOf(cs[k + 1])
            /\ \A i, j \in RawIndexes :
                  (/\ i < j
                   /\ HasTimes(i) /\ HasTimes(j)
                   /\ probe.chapters[i].start = probe.chapters[j].start)
                  => ResultPlace(i) < ResultPlace(j)

(* C9: a raw chapter record without start_time or end_time is skipped with  *)
(* a warning that names its index (its place in the records sorted by       *)
(* start); probe_metadata still returns, and every raw record with both     *)
(* times is in the result.                                                  *)
C9_MissingTimesSkipped ==
    /\ ppc = "raised" => (~is_file \/ IsNone(probe.format))
    /\ ppc = "returned" =>
          LET cs == Get(probed).chapters
          IN  /\ Len(cs) = Cardinality({i \in RawIndexes : HasTimes(i)})
              /\ \A i \in RawIndexes :
                    HasTimes(i) =>
                        /\ ResultPlace(i) <= Len(cs)
                        /\ cs[ResultPlace(i)].title =
                              (IF IsNone(probe.chapters[i].tags.title) THEN <<>>
                               ELSE Get(probe.chapters[i].tags.title))
                        /\ cs[ResultPlace(i)].description =
                              probe.chapters[i].tags.description
                        /\ StartOf(cs[ResultPlace(i)]) =
                              probe.chapters[i].start % (24 * MsPerHour)
              /\ Len(warnings) = Cardinality({i \in RawIndexes : ~HasTimes(i)})
              /\ \A i \in RawIndexes :
                    ~HasTimes(i) => \E w \in 1..Len(warnings) : warnings[w] = Rank(i)

\* a record without its end time sorts first and is skipped, and the two
\* records behind it are projected
C9_Witness ==
    /\ ppc = "returned"
    /\ warnings = <<0>>
    /\ Len(probe.chapters) = 3
    /\ Len(Get(probed).chapters) = 2

-----------------------------------------------------------------------------
(* Claims about prompt_tag *)

\* whether a validator of the definitions modelled refuses a value, stated
\* on the value itself
Rejects(validator, value) ==
    CASE validator.kind = "pattern" /\ validator.label = "^\\d+$" ->
             \/ Len(value) = 0
             \/ \E i \in 1..Len(value) : value[i] \notin DigitChars
      [] validator.kind = "choice" -> value \notin validator.choices
      [] validator.kind = "max_length" -> Len(value) > validator.max_length
      [] validator.kind = "dateformat" ->
             ~DateformatMatches(validator.label, value)

ErrorOf(validator, value) ==
    [kind |-> validator.kind, value |-> value, arg |-> validator.label]

RECURSIVE ErrorsOf(_, _)
ErrorsOf(validators, value) ==
    IF Len(validators) = 0 THEN <<>>
    ELSE (IF Rejects(validators[1], value)
          THEN <<ErrorOf(validators[1], value)>> ELSE <<>>)
         \o ErrorsOf(Tail(validators), value)

ValidatorsDone ==
    prpc = "validate" /\ validator_index = Len(tag_definition.validators)

(* C10: prompt_tag runs every validator of the definition on the value,     *)
(* also after an earlier one has failed, and prints one error message per   *)
(* failing validator; a value failing a pattern and a max-length validator  *)
(* gives two distinct messages before it is rejected.                       *)
C10_ValidatorsAccumulate ==
    /\ [][(prpc = "validate" /\ validator_index < Len(tag_definition.validators))
          => LET v == tag_definition.validators[validator_index + 1]
             IN  /\ validator_index' = validator_index + 1
                 /\ prpc' = "validate"
                 /\ IF Rejects(v, tag_value)
                    THEN /\ console' = Append(console, ErrorOf(v, tag_value))
                         /\ is_valid' = FALSE
                    ELSE /\ console' = console
                         /\ is_valid' = is_valid]_vars
    /\ [](ValidatorsDone =>
            LET errs == ErrorsOf(tag_definition.validators, tag_value)
            IN  /\ is_valid <=> (Len(errs) = 0)
                /\ Len(console) >= Len(errs)
                /\ SubSeq(console, Len(console) - Len(errs) + 1, Len(console)) = errs)
    /\ [][(ValidatorsDone /\ ~is_valid) => (prpc' = "loop" /\ prompted' = None)]_vars

\* "abc" has failed the pattern and the max-length validator: two different
\* messages are on the console and the value is not valid
C10_Witness ==
    /\ ValidatorsDone
    /\ tag_definition = TAG_two_validators
    /\ ~is_valid
    /\ Len(console) >= 2
    /\ console[Len(console) - 1].kind = "pattern"
    /\ console[Len(console)].kind = "max_length"
    /\ console[Len(console) - 1] # console[Len(console)]
    /\ console[Len(console)].value = tag_value

-----------------------------------------------------------------------------
(* Claims about the tag catalog and the MediaMetadata methods *)

DocTags == media_metadata.tags

\* the n-th smallest element of a set of positions
NthOf(S, n) == CHOOSE i \in S : Cardinality({j \in S : j < i}) = n - 1

\* two characters that differ at most in letter case
SameLetter(a, b) ==
    \/ a = b
    \/ \E i \in 1..26 : {a, b} = {UpperLetters[i], LowerLetters[i]}

SameKey(a, b) ==
    Len(a) = Len(b) /\ \A i \in 1..Len(a) : SameLetter(a[i], b[i])

DefinedPositions == {i \in 1..Len(DocTags) : DocTags[i][1] \in DOMAIN TAG_DEFINITIONS}

(* C11: iter_defined_tags yields, in document tag order, exactly one        *)
(* (definition, value) pair for each tag whose key has an entry in          *)
(* TAG_DEFINITIONS and nothing for the other tags; the tags title=X,        *)
(* bogus_key=Y give one pair, for title.                                    *)
C11_DefinedTagsOnly ==
    (tgpc = "done" /\ ~IsNone(defined_tags)) =>
        /\ Len(Get(defined_tags)) = Cardinality(DefinedPositions)
        /\ \A n \in 1..Len(Get(defined_tags)) :
              /\ Get(defined_tags)[n][1] =
                    TAG_DEFINITIONS[DocTags[NthOf(DefinedPositions, n)][1]]
              /\ Get(defined_tags)[n][2] = DocTags[NthOf(DefinedPositions, n)][2]

C11_Witness ==
    /\ tgpc = "done"
    /\ DocTags = <<<<K_title, <<"X">>>>, <<<<"b", "o", "g", "u", "s", "_", "k", "e", "y">>, <<"Y">>>>>>
    /\ defined_tags = Some(<<<<TAG_DEFINITIONS[K_title], <<"X">>>>>>)

FoundPositions ==
    {i \in 1..Len(DocTags) : SameKey(DocTags[i][1], find_definition.key)}

(* C12: find_tags(definition) yields, in document order and with            *)
(* duplicates, exactly the values of the tags whose key equals              *)
(* definition.key without regard to letter case, and a second call on the   *)
(* unchanged metadata yields the same sequence.                             *)
C12_FindTagsCaseInsensitive ==
    /\ [](~IsNone(found_tags) =>
            /\ Len(Get(found_tags)) = Cardinality(FoundPositions)
            /\ \A n \in 1..Len(Get(found_tags)) :
                  Get(found_tags)[n] = DocTags[NthOf(FoundPositions, n)][2])
    /\ [][(~IsNone(found_tags) /\ find_calls' > find_calls)
          => found_tags' = found_tags]_vars

\* title=X and Title=Z are both found for the definition of title, twice
C12_Witness ==
    /\ find_calls = 2
    /\ find_definition = TAG_DEFINITIONS[K_title]
    /\ DocTags = <<<<K_title, <<"X">>>>, <<<<"T", "i", "t", "l", "e">>, <<"Z">>>>>>
    /\ found_tags = Some(<<<<"X">>, <<"Z">>>>)

RequiredKeys ==
    <<K_title, K_description, K_language, K_encoder, K_encoded_by,
      K_creation_time, K_rating, K_copyright>>

\* the keys the claim names for the category of a mimetype
DesiredKeys(mime) ==
    IF IsNone(mime) THEN <<>>
    ELSE IF SameKey(MimePrefix(Get(mime)), AUDIO) THEN <<K_genre, K_track, K_disc>>
    ELSE IF SameKey(MimePrefix(Get(mime)), VIDEO) THEN <<K_hd_video>>
    ELSE <<>>

(* C13: iter_desired_tags yields the eight required definitions in their    *)
(* fixed order and then the desired definitions of the media's category     *)
(* (audio: genre, track, disc; video: hd_video); for image or an unknown    *)
(* category it yields the required definitions only.                        *)
C13_RequiredThenDesired ==
    (tgpc = "done" /\ ~IsNone(desired_tags)) =>
        LET keys == RequiredKeys \o DesiredKeys(mimetype)
        IN  /\ Len(Get(desired_tags)) = Len(keys)
            /\ \A i \in 1..Len(keys) :
                  Get(desired_tags)[i] = TAG_DEFINITIONS[keys[i]]

C13_Witness ==
    /\ tgpc = "done"
    /\ mimetype = Some(<<"a", "u", "d", "i", "o", "/", "m", "p", "e", "g">>)
    /\ ~IsNone(desired_tags)
    /\ Len(Get(desired_tags)) = 11
    /\ Get(desired_tags)[9].key = K_genre

\* the key the claim expects a tag to be written under
WrittenKey(key) ==
    IF key \in DOMAIN TAG_DEFINITIONS /\ ~IsNone(TAG_DEFINITIONS[key].write_key)
    THEN Get(TAG_DEFINITIONS[key].write_key)
    ELSE key

(* C14: in the text written for a metadata, a tag whose catalog definition  *)
(* has a write_key stands under that write_key (artist is written author=)  *)
(* and every other tag under its key.  The code never reads write_key: the  *)
(* tag artist=A is written "artist=A".                                      *)
C14_WriteKeyUsed ==
    ~IsNone(ffmetadata_text) =>
        \A i \in 1..Len(DocTags) :
            /\ i + 1 <= Len(splitlines(Get(ffmetadata_text)))
            /\ splitlines(Get(ffmetadata_text))[i + 1] =
                  WrittenKey(DocTags[i][1]) \o EQ \o DocTags[i][2]

(* C19: before and after every operation on tags, every entry (k, d) of    *)
(* TAG_DEFINITIONS has d.key = k.  No operation assigns to the catalog,     *)
(* which is a constant here; but the entry "grouping" has its description   *)
(* as its key.                                                              *)
C19_CatalogKeyed ==
    tgpc # "idle" =>
        \A k \in DOMAIN TAG_DEFINITIONS : TAG_DEFINITIONS[k].key = k

-----------------------------------------------------------------------------
(* Claims about parse_timestamp and format_timestamp *)

\* HH:MM:SS.mmm: one or more digits of hours, two of minutes, two of
\* seconds, three of milliseconds, and nothing else
StrictShape(s) ==
    LET hw == DigitRun(s, 1)
    IN  /\ hw >= 1
        /\ Len(s) = hw + 10
        /\ s[hw + 1] = ":" /\ s[hw + 4] = ":" /\ s[hw + 7] = "."
        /\ \A i \in {hw + 2, hw + 3, hw + 5, hw + 6, hw + 8, hw + 9, hw + 10} :
              s[i] \in DigitChars

(* C18: parse_timestamp accepts a string if and only if it has the shape    *)
(* HH:MM:SS.mmm and raises ValueError for every other string;               *)
(* format_timestamp always emits that shape, and                            *)
(* parse_timestamp(format_timestamp(t)) = t.  The code accepts "7:8:9.1".   *)
C18_ParseStrict ==
    /\ pspc \in {"parsed", "raised"} =>
          ((pspc = "parsed") <=> StrictShape(parse_text))
    /\ (pspc \in {"parse", "parsed", "raised"} /\ ~IsNone(time_arg)) =>
          StrictShape(parse_text)
    /\ (pspc \in {"parsed", "raised"} /\ ~IsNone(time_arg)) =>
          parsed_time = time_arg

-----------------------------------------------------------------------------
(* Claims about dumps_metadata and loads_metadata *)

\* a loaded chapter is a MediaChapter with the fields of chapter
IsChapter(v, chapter) ==
    /\ v.class = "MediaChapter"
    /\ Item(v.items, "title") = PyStr(chapter.title)
    /\ Item(v.items, "start_time") = PyTime(chapter.start_time)
    /\ Item(v.items, "end_time") = PyTime(chapter.end_time)
    /\ Item(v.items, "description") =
          (IF IsNone(chapter.description) THEN PyNone
           ELSE PyStr(Get(chapter.description)))

\* a loaded tag is the tuple (key, value)
IsTag(v, tag) ==
    /\ v.class = "tuple"
    /\ v.items = <<PyStr(tag[1]), PyStr(tag[2])>>

(* C15: loads_metadata(dumps_metadata(m)) returns a MediaMetadata whose     *)
(* version, tags and chapters equal those of m, and the apply command can   *)
(* hand it to write_metadata.  The code returns the dict json.loads builds: *)
(* it has no attribute tags, and write_metadata raises AttributeError.      *)
C15_JsonRoundTrip ==
    /\ jpc # "raised"
    /\ ~IsNone(json_loaded) =>
          LET v == Get(json_loaded)
              m == Get(json_metadata)
          IN  /\ v.class = "MediaMetadata"
              /\ Item(v.items, "version") = PyStr(m.version)
              /\ Len(Item(v.items, "tags").items) = Len(m.tags)
              /\ \A i \in 1..Len(m.tags) :
                    IsTag(Item(v.items, "tags").items[i], m.tags[i])
              /\ Len(Item(v.items, "chapters").items) = Len(m.chapters)
              /\ \A i \in 1..Len(m.chapters) :
                    IsChapter(Item(v.items, "chapters").items[i], m.chapters[i])

-----------------------------------------------------------------------------
(* Claims about write_metadata *)

(* C16: write_metadata with output_filepath equal to media_filepath, an     *)
(* existing media file, raises ValueError, with overwrite False and with    *)
(* overwrite True.  With overwrite False the code raises FileExistsError,   *)
(* because the output path exists.                                          *)
C16_SamePathInvalid ==
    (/\ wpc # "call"
     /\ media_filepath = output_filepath
     /\ fs[media_filepath] = "file")
    => (wpc = "raised" /\ write_error = "ValueError")

\* the three cases in which write_metadata is to do nothing
Rejected ==
    \/ fs[media_filepath] # "file"
    \/ (fs[output_filepath] # "absent" /\ ~overwrite)
    \/ media_filepath = output_filepath

(* C17: when the media file is missing, when the output path exists and     *)
(* overwrite is false, or when the output path is the media path,           *)
(* write_metadata raises without having created the metadata document and   *)
(* without having run ffmpeg.                                               *)
C17_NoWriteWhenRejected ==
    Rejected =>
        /\ ~temp_created
        /\ ~tool_invoked
        /\ wpc \in {"call", "raised"}
        /\ wpc = "raised" =>
              write_error \in {"FileNotFoundError", "FileExistsError", "ValueError"}

\* the output path is the media path and overwrite is set: ValueError, and
\* nothing was created
C17_Witness ==
    /\ wpc = "raised"
    /\ write_error = "ValueError"
    /\ media_filepath = output_filepath
    /\ overwrite
    /\ ~temp_created

-----------------------------------------------------------------------------
(* C20: the lines loads_ffmetadata passes over *)

ChapterKeys == {lower(sStart), lower(sEnd), lower(sTitle), lower(sDescription)}

\* a line the claim says may be inserted: blank or of whitespace only,
\* neither a [chapter] marker nor key=value, or, inside a chapter section,
\* key=value with a key other than start, end, title, description
Ignorable(line, in_chapter) ==
    \/ \A i \in 1..Len(line) : line[i] \in Whitespace
    \/ (lower(line) # lcChapter /\ ~KVShape(line))
    \/ /\ in_chapter
       /\ KVShape(line)
       /\ \A k \in ChapterKeys : ~SameKey(KVKey(line), k)

(* C20: a blank or whitespace-only line, a line that is neither a [chapter] *)
(* marker nor of key=value shape, and inside a chapter section a key=value  *)
(* line whose key is not start, end, title or description in any letter     *)
(* case, is passed over: reading it raises nothing and leaves the tags, the *)
(* chapters and the open chapter as they were, so the result is the one of  *)
(* the document without that line.                                          *)
C20_IgnoredLines ==
    [][(/\ lpc = "loop"
        /\ line_index + 2 <= Len(lines)
        /\ Ignorable(lines[line_index + 2], is_parsing_chapter))
       => /\ lpc' = "loop"
          /\ error' = ""
          /\ line_index' = line_index + 1
          /\ UNCHANGED <<tags, chapters, is_parsing_chapter, chapter_vars,
                         loaded>>]_vars

\* a chapter read around an unknown key, a blank line and a line of no shape
C20_Witness ==
    /\ lpc = "returned"
    /\ error = ""
    /\ \E i \in 3..(Len(lines) - 5) :
          /\ lower(lines[i - 1]) = lcChapter
          /\ lines[i + 1] = lnKV
          /\ lines[i + 2] = lnBlank
          /\ lines[i + 4] = lnJunk
    /\ Len(Get(loaded).chapters) = 1
    /\ Get(loaded).chapters[1].title = <<"B", " ">>
    /\ Len(Get(loaded).tags) = 0

-----------------------------------------------------------------------------
(* C21: write_metadata once the three checks have passed *)

\* write_metadata has got past the checks of lines 282-292 and has ended
WriteEnded == temp_created /\ wpc \in {"returned", "raised"}

(* C21: when the media file exists, the output path is free or overwrite   *)
(* is set, and the two paths differ, write_metadata ends by returning the   *)
(* output path, ffmpeg having been run on the metadata document, and the    *)
(* document is gone afterwards.  The code closes the NamedTemporaryFile     *)
(* before it looks for the document, which removes it, so the call raises   *)
(* IOError and ffmpeg is not run.                                           *)
C21_TempDocumentServesTool ==
    WriteEnded =>
        /\ wpc = "returned"
        /\ write_error = ""
        /\ tool_invoked
        /\ temp_text = dumps_ffmetadata(write_arg)
        /\ ~temp_exists

-----------------------------------------------------------------------------
(* C22: what prompt_tag returns *)

\* some validator of the definition refuses the value
SomeRejects(definition, value) ==
    \E i \in 1..Len(definition.validators) :
        Rejects(definition.validators[i], value)

(* C22: prompt_tag returns a value only if every validator of the           *)
(* definition accepts it; a value some validator refuses, typed or taken    *)
(* from the default, is not returned and the user is asked again.           *)
C22_OnlyAcceptedReturned ==
    /\ [](prpc = "returned" =>
            /\ ~IsNone(prompted)
            /\ ~SomeRejects(tag_definition, Get(prompted)))
    /\ [][(ValidatorsDone /\ SomeRejects(tag_definition, tag_value))
          => (prpc' = "loop" /\ prompted' = None)]_vars
    /\ [][prpc = "loop" => (prpc' = "ask" /\ prompted' = None)]_vars

\* the default of creation_time, made at a clock reading with no
\* microseconds, was taken and refused; a later answer was returned
C22_Witness ==
    /\ prpc = "returned"
    /\ tag_definition = TAG_creation_time
    /\ IsNone(default)
    /\ \E i \in 1..Len(console) :
          /\ console[i].kind = "dateformat"
          /\ console[i].value
                = isoformat(DateTime(2021, 1, 2, 3, 4, 5, 0)) \o <<"Z">>
    /\ ~SomeRejects(tag_definition, Get(prompted))

-----------------------------------------------------------------------------
(* C23: the errors of loads_ffmetadata *)

(* C23: for every input text, the empty one included, loads_ffmetadata      *)
(* returns a MediaMetadata or raises ValueError, and raises nothing else.   *)
(* For the empty text content.splitlines() is the empty list and lines[0]   *)
(* raises IndexError.                                                       *)
C23_OnlyFormatError ==
    /\ lpc = "raised" => error = "ValueError"
    /\ lpc = "returned" => (~IsNone(loaded) /\ error = "")

-----------------------------------------------------------------------------
(* C24: what probe_metadata returns, written and read back *)

(* C24: for every MediaMetadata m probe_metadata returns, also one with a   *)
(* chapter that has no title tag, loads_ffmetadata(dumps_ffmetadata(m))     *)
(* returns, with as many chapters as m has.  The untitled chapter is        *)
(* written as "TITLE=" and read back with an empty title, which the parser  *)
(* takes for an incomplete chapter: ValueError before a further chapter,    *)
(* and the chapter dropped at the end of the text.                          *)
C24_ProbedChaptersKept ==
    (/\ lpc \in {"returned", "raised"}
     /\ metadata # None
     /\ Get(metadata) \in ProbedMetadataSamples)
    => /\ lpc = "returned"
       /\ Len(Get(loaded).chapters) = Len(Get(metadata).chapters)

-----------------------------------------------------------------------------
(* C25: where the parts of a parsed chapter come from *)

\* the positions of the [chapter] markers among the lines read
MarkerPositions == {i \in 2..Len(lines) : lower(lines[i]) = lcChapter}

\* the position of the k-th marker, and of the last line of its block
MarkerAt(k) ==
    CHOOSE i \in MarkerPositions :
        Cardinality({j \in MarkerPositions : j <= i}) = k
BlockEnd(k) ==
    IF Cardinality(MarkerPositions) > k THEN MarkerAt(k + 1) - 1 ELSE Len(lines)

\* the value of the last key=value line of the k-th block with the given
\* key in any letter case, None when the block has no such line
LastInBlock(k, key) ==
    LET at == {i \in (MarkerAt(k) + 1)..BlockEnd(k) :
                  KVShape(lines[i]) /\ SameKey(KVKey(lines[i]), key)}
    IN  IF at = {} THEN None
        ELSE Some(KVValue(lines[CHOOSE i \in at : \A j \in at : j <= i]))

(* C25: the title, description, start and end of every chapter              *)
(* loads_ffmetadata returns come from the lines of that chapter's own       *)
(* block, the last occurrence of a repeated key winning, and a part the     *)
(* block does not set is not taken over from an earlier block: all four     *)
(* accumulators are None after every boundary.                              *)
C25_ChapterFromOwnBlock ==
    /\ [][(AtMarkerInChapter /\ lpc' = "loop")
          => (/\ title' = None
              /\ description' = None
              /\ start_time' = None
              /\ end_time' = None)]_vars
    /\ [](lpc = "returned" =>
            \A k \in 1..Len(Get(loaded).chapters) :
                LET chapter == Get(loaded).chapters[k]
                IN  /\ Cardinality(MarkerPositions) >= k
                    /\ Some(chapter.title) = LastInBlock(k, sTitle)
                    /\ chapter.description = LastInBlock(k, sDescription)
                    /\ ~IsNone(LastInBlock(k, sStart))
                    /\ Some(chapter.start_time)
                          = Some(milliseconds_to_time(
                                     Get(int(Get(LastInBlock(k, sStart))))))
                    /\ ~IsNone(LastInBlock(k, sEnd))
                    /\ Some(chapter.end_time)
                          = Some(milliseconds_to_time(
                                     Get(int(Get(LastInBlock(k, sEnd)))))))

\* two chapters read: the first block sets a description, the second sets
\* none and repeats its title and its start, of which the last ones count
C25_Witness ==
    /\ lpc = "returned"
    /\ Len(Get(loaded).chapters) = 2
    /\ Get(loaded).chapters[1].description = Some(<<"D">>)
    /\ Get(loaded).chapters[2].description = None
    /\ Cardinality({i \in (MarkerAt(2) + 1)..BlockEnd(2) :
                       KVShape(lines[i]) /\ SameKey(KVKey(lines[i]), sTitle)}) = 2
    /\ Get(loaded).chapters[2].title = <<"B", " ">>
    /\ Get(loaded).chapters[2].start_time = milliseconds_to_time(0)

-----------------------------------------------------------------------------
(* C26: find_tags against iter_defined_tags *)

\* the values iter_defined_tags has paired with the definition looked for
PairedValues ==
    LET IsPaired(pair) == pair[1] = find_definition
        paired == SelectSeq(Get(defined_tags), IsPaired)
    IN  [i \in 1..Len(paired) |-> paired[i][2]]

(* C26: for every metadata and every definition of the catalog, the values  *)
(* find_tags yields for the definition are the values iter_defined_tags     *)
(* pairs with it, whatever the letter case of the tag keys.  find_tags      *)
(* compares keys in lower case, iter_defined_tags looks the key up as       *)
(* written: the tag url=w is found for the definition of URL and paired     *)
(* with nothing.                                                            *)
C26_FindAgreesWithDefined ==
    (/\ ~IsNone(found_tags)
     /\ ~IsNone(defined_tags)
     /\ find_definition \in {TAG_DEFINITIONS[k] : k \in DOMAIN TAG_DEFINITIONS})
    => Get(found_tags) = PairedValues

-----------------------------------------------------------------------------
(* C27: the millisecond round trips within one day, and the wrap beyond *)

MsPerDay == 24 * MsPerHour

(* C27: for n below 24 h, time_to_milliseconds(milliseconds_to_time(n)) and *)
(* timestamp_to_milliseconds(milliseconds_to_timestamp(n)) are n; for every *)
(* n, milliseconds_to_time(n) is the time of day of n modulo 24 h, so its   *)
(* hour is at most 23.                                                      *)
C27_RoundTripWithinDay ==
    /\ ~IsNone(time_value) =>
          /\ TimeMs(Get(time_value)) = milliseconds % MsPerDay
          /\ Get(time_value).hour <= 23
          /\ Get(time_value).microsecond % 1000 = 0
    /\ (tpc = "done" /\ milliseconds < MsPerDay) =>
          /\ ms_result = Some(milliseconds)
          /\ time_to_milliseconds(Get(time_value)) = milliseconds
          /\ timestamp = Some(format_timestamp(milliseconds_to_time(milliseconds)))

\* the last millisecond of the day has gone through both conversions
C27_Witness ==
    /\ tpc = "done"
    /\ milliseconds = MsPerDay - 1
    /\ timestamp = Some(<<"2", "3", ":", "5", "9", ":", "5", "9", ".", "9", "9", "9">>)
    /\ ms_result = Some(MsPerDay - 1)

-----------------------------------------------------------------------------
(* C28: the flexible and the strict timestamp parser *)

(* C28: a string both timestamp_to_milliseconds and parse_timestamp accept, *)
(* as prompt_time requires of an answer, denotes one instant:               *)
(* time_to_milliseconds(parse_timestamp(s)) = timestamp_to_milliseconds(s); *)
(* and time_to_milliseconds(timestamp_to_time(s)) is the same number for    *)
(* every s timestamp_to_time accepts.  For "0:00:01.5" the pattern reads    *)
(* the fraction as 5 ms and parse_timestamp, which appends "000" and reads  *)
(* microseconds, as 500 ms.                                                 *)
C28_ParsersAgree ==
    /\ pspc = "prompted" =>
          time_to_milliseconds(Get(parsed_time))
              = Get(timestamp_to_milliseconds(parse_text))
    /\ (pspc \in {"prompted", "refused"} /\ ~IsNone(timestamp_to_time(parse_text))) =>
          time_to_milliseconds(Get(timestamp_to_time(parse_text)))
              = Get(timestamp_to_milliseconds(parse_text))

-----------------------------------------------------------------------------
(* C29: "edit chapters --chapter c" *)

-----------------------------------------------------------------------------
(* C30: the default providers of the catalog *)

(* C30: the value the default provider of a definition returns is absent    *)
(* or passes every validator of that definition, at every clock reading and *)
(* in every environment.  The default of creation_time is                   *)
(* datetime.now().isoformat() with "Z" appended; isoformat leaves out the   *)
(* fraction when the microsecond is 0, and the date format validator,       *)
(* which requires ".%f", refuses the value.                                 *)
C30_DefaultsAccepted ==
    (/\ prpc # "call"
     /\ ~TruthyStr(default)
     /\ tag_definition.default # "none"
     /\ ~IsNone(tag_default))
    => ~SomeRejects(tag_definition, Get(tag_default))

====
